---- MODULE Spec2Model ----
(***************************************************************************)
(* Rooted trees, forests and forest sums of rootedtrees/trees.py.          *)
(*                                                                         *)
(* Values are tagged records:                                              *)
(*   Tree       [kind, none, list_repr]   none = (list_repr is None);      *)
(*                                        list_repr = nested tuples        *)
(*   Forest     [kind, tree_list]         tuple of Trees                   *)
(*   ForestSum  [kind, forest_list, coeff_list]                            *)
(*   scalar     [kind, num]               a python int                     *)
(*   error      [kind]                    a raised ValueError              *)
(***************************************************************************)
EXTENDS Integers, Sequences, FiniteSets, TLC

VARIABLES self, other, op, func1, func2, n, apply_reduction, out, cache, pc

vars == <<self, other, op, func1, func2, n, apply_reduction, out, cache, pc>>

(***************************************************************************)
(* Bounds of the model.                                                    *)
(***************************************************************************)
\* largest number of nodes of a tree drawn as an input
MaxNodes == 4

\* largest |n| of a convolution power the host asks for
MaxPower == 3

(***************************************************************************)
(* Constructors.                                                           *)
(***************************************************************************)
\* tuple(x): the elements of x, evaluated, as a tuple
tuple(x) == <<>> \o x

Tree(rep) == [kind |-> "Tree", none |-> FALSE, list_repr |-> rep]

Forest(trees) == [kind |-> "Forest", tree_list |-> tuple(trees)]

ForestSum(forests, coeffs) ==
    [kind |-> "ForestSum", forest_list |-> tuple(forests), coeff_list |-> tuple(coeffs)]

Scalar(c) == [kind |-> "scalar", num |-> c]

ValueError == [kind |-> "error"]

\* the None a method falls off with
PyNone == [kind |-> "None"]

EMPTY_TREE == [kind |-> "Tree", none |-> TRUE, list_repr |-> <<>>]
EMPTY_FOREST == Forest(<<EMPTY_TREE>>)
EMPTY_FOREST_SUM == ForestSum(<<EMPTY_FOREST>>, <<1>>)
ZERO_FOREST_SUM == ForestSum(<<EMPTY_FOREST>>, <<0>>)

SINGLETON_TREE == Tree(<<>>)
SINGLETON_FOREST == Forest(<<SINGLETON_TREE>>)
SINGLETON_FOREST_SUM == ForestSum(<<SINGLETON_FOREST>>, <<1>>)

(***************************************************************************)
(* Method calls.  obj.method(args) is Call(obj, method, args): python       *)
(* resolves the method by the class of obj, and so does Call, defined once  *)
(* all the methods are.                                                     *)
(***************************************************************************)
RECURSIVE Call(_, _, _)

(***************************************************************************)
(* utils: combinatorial primitives on a nested-tuple representation.       *)
(***************************************************************************)
RECURSIVE _nodes(_)
RECURSIVE SumNodes(_, _)
SumNodes(rep, i) ==
    IF i > Len(rep) THEN 0 ELSE _nodes(rep[i]) + SumNodes(rep, i + 1)

\* 1 + the nodes of the children
_nodes(rep) == 1 + SumNodes(rep, 1)

RECURSIVE _factorial(_)
RECURSIVE ProdFactorial(_, _)
ProdFactorial(rep, i) ==
    IF i > Len(rep) THEN 1 ELSE _factorial(rep[i]) * ProdFactorial(rep, i + 1)

\* 1 for the unit tree, otherwise nodes(t) times the children's factorials
_factorial(rep) == _nodes(rep) * ProdFactorial(rep, 1)

\* the fixed total order on canonical forms: heavier first, then the first
\* differing child decides
RECURSIVE _before(_, _)
RECURSIVE FirstDiff(_, _, _)
FirstDiff(a, b, i) ==
    IF i > Len(a) \/ i > Len(b) THEN 0
    ELSE IF a[i] # b[i] THEN i ELSE FirstDiff(a, b, i + 1)

_before(a, b) ==
    IF _nodes(a) # _nodes(b) THEN _nodes(a) > _nodes(b)
    ELSE LET i == FirstDiff(a, b, 1)
         IN  IF i = 0 THEN Len(a) > Len(b) ELSE _before(a[i], b[i])

RECURSIVE InsertSorted(_, _)
InsertSorted(x, s) ==
    IF s = <<>> THEN <<x>>
    ELSE IF x = s[1] \/ _before(x, s[1]) THEN <<x>> \o s
    ELSE <<s[1]>> \o InsertSorted(x, Tail(s))

RECURSIVE _sorted_list_repr(_)
RECURSIVE SortChildren(_, _)
SortChildren(rep, i) ==
    IF i > Len(rep) THEN <<>>
    ELSE InsertSorted(_sorted_list_repr(rep[i]), SortChildren(rep, i + 1))

\* canonical form: children sorted recursively, heaviest first
_sorted_list_repr(rep) == SortChildren(rep, 1)

Factorial(k) == IF k <= 1 THEN 1 ELSE LET F[i \in 1..k] == IF i = 1 THEN 1 ELSE i * F[i - 1] IN F[k]

RECURSIVE Power(_, _)
Power(b, e) == IF e = 0 THEN 1 ELSE b * Power(b, e - 1)

\* symmetry factor: product over the classes of children of m! * sigma^m
RECURSIVE _sigma(_)
RECURSIVE ProdSigma(_, _)
ProdSigma(classes, rep) ==
    IF classes = {} THEN 1
    ELSE LET c == CHOOSE x \in classes : TRUE
             m == Cardinality({i \in 1..Len(rep) : _sorted_list_repr(rep[i]) = c})
         IN  Factorial(m) * Power(_sigma(c), m) * ProdSigma(classes \ {c}, rep)

_sigma(rep) ==
    ProdSigma({_sorted_list_repr(rep[i]) : i \in 1..Len(rep)}, rep)

(***************************************************************************)
(* Small helpers for python built-ins.                                     *)
(***************************************************************************)
\* python None / a present value, for results that may be None
None == <<>>
Some(x) == <<x>>

RECURSIVE Sum(_)
Sum(s) == IF s = <<>> THEN 0 ELSE Head(s) + Sum(Tail(s))

\* hash() of a (nested) tuple: a deterministic function of its contents
RECURSIVE PyHash(_)
RECURSIVE PyHashFrom(_, _, _)
PyHashFrom(s, i, h) ==
    IF i > Len(s) THEN h
    ELSE PyHashFrom(s, i + 1, (h * 31 + PyHash(s[i]) + i) % (2 ^ 16))

PyHash(s) == PyHashFrom(s, 1, Len(s) + 7)

(***************************************************************************)
(* Tree: canonical form, equality, hash, invariants.                       *)
(***************************************************************************)
Tree_nodes(t) == IF t.none THEN 0 ELSE _nodes(t.list_repr)

Tree_factorial(t) == IF t.none THEN 1 ELSE _factorial(t.list_repr)

Tree_sigma(t) == IF t.none THEN 1 ELSE _sigma(t.list_repr)

Tree_sorted_list_repr(t) ==
    IF t.none THEN None ELSE Some(_sorted_list_repr(t.list_repr))

Tree_hash(t) == PyHash(Tree_sorted_list_repr(t))

\* Tree._equals comparing list_repr as given, not its sorted form
Tree_equals_raw(t, other_tree) ==
    t.none = other_tree.none /\ t.list_repr = other_tree.list_repr

Tree_equals(t, other_tree) ==
    Tree_sorted_list_repr(t) = Tree_sorted_list_repr(other_tree)

Tree_as_forest(t) == Forest(<<t>>)

Tree_unjoin(t) ==
    IF t.none THEN EMPTY_FOREST
    ELSE Forest([i \in 1..Len(t.list_repr) |-> Tree(t.list_repr[i])])

(***************************************************************************)
(* Forest: reduction and equality.                                         *)
(***************************************************************************)
\* collections.Counter over trees: keyed by Tree.__hash__ / Tree.__eq__
Counter(tree_list) ==
    LET keys == {Tree_sorted_list_repr(tree_list[i]) : i \in 1..Len(tree_list)}
    IN  [k \in keys |->
            Cardinality({i \in 1..Len(tree_list) :
                            Tree_sorted_list_repr(tree_list[i]) = k})]

Forest_reduce(f) ==
    IF Len(f.tree_list) <= 1 THEN f
    ELSE LET filtered == SelectSeq(f.tree_list, LAMBDA t : ~t.none)
         IN  IF filtered = <<>> THEN Forest(<<EMPTY_TREE>>)
             ELSE IF Len(filtered) = Len(f.tree_list) THEN f
             ELSE Forest(filtered)

Forest_equals(f, other_forest) ==
    Counter(Call(f, "reduce", <<>>).tree_list)
        = Counter(Call(other_forest, "reduce", <<>>).tree_list)

Forest_nodes(f) == Sum([i \in 1..Len(f.tree_list) |-> Tree_nodes(f.tree_list[i])])

(***************************************************************************)
(* ForestSum: construction, reduction and equality.                        *)
(***************************************************************************)
\* ForestSum.__post_init__ with a coefficient list
ForestSum_init(forests, coeffs) ==
    IF \E i \in 1..Len(forests) : forests[i].kind \notin {"Forest", "Tree"}
    THEN ValueError
    ELSE IF Len(coeffs) # Len(forests) THEN ValueError
    ELSE ForestSum([i \in 1..Len(forests) |->
                       IF forests[i].kind = "Tree" THEN Tree_as_forest(forests[i])
                       ELSE forests[i]],
                   coeffs)

\* ForestSum.__post_init__ with coeff_list = None: all coefficients are 1
ForestSum_init_ones(forests) ==
    ForestSum_init(forests, [i \in 1..Len(forests) |-> 1])

Tree_as_forest_sum(t) == ForestSum_init_ones(<<Forest(<<t>>)>>)

Forest_as_forest_sum(f) == ForestSum_init_ones(<<f>>)

\* "for i, f2 in enumerate(new_forest_list): if f_reduced._equals(f2): ... break":
\* the index of the first forest of new_forest_list that _equals f_reduced, or 0
FirstEqual(f_reduced, new_forest_list) ==
    LET hits == {i \in 1..Len(new_forest_list) :
                    Call(f_reduced, "_equals", <<new_forest_list[i]>>)}
    IN  IF hits = {} THEN 0 ELSE CHOOSE i \in hits : \A j \in hits : i <= j

\* one pass of the body of the merging loop of ForestSum.reduce, for term i;
\* acc is <<new_forest_list, new_coeff_list>>
MergeTerm(s, i, acc) ==
    LET f_reduced == Call(s.forest_list[i], "reduce", <<>>)
        c == s.coeff_list[i]
        j == FirstEqual(f_reduced, acc[1])
    IN  IF j # 0
        THEN <<acc[1], [acc[2] EXCEPT ![j] = @ + c]>>
        ELSE <<Append(acc[1], f_reduced), Append(acc[2], c)>>

\* the merging loop over the terms lo..hi, in order, started from acc
RECURSIVE MergeTerms(_, _, _, _)
MergeTerms(s, lo, hi, acc) ==
    IF lo > hi THEN acc
    ELSE IF lo = hi THEN MergeTerm(s, lo, acc)
    ELSE LET mid == (lo + hi) \div 2
         IN  CHOOSE merged \in {MergeTerms(s, mid + 1, hi, left) :
                                   left \in {MergeTerms(s, lo, mid, acc)}} : TRUE

\* "[(f, c) for f, c in zip(new_forest_list, new_coeff_list) if c != 0]"
ForestSum_reduce(s) ==
    LET merged == MergeTerms(s, 1, Len(s.forest_list), << <<>>, <<>> >>)
        nonzero == SelectSeq([i \in 1..Len(merged[1]) |-> i], LAMBDA i : merged[2][i] # 0)
    IN  IF nonzero = <<>> THEN ZERO_FOREST_SUM
        ELSE ForestSum_init([q \in 1..Len(nonzero) |-> merged[1][nonzero[q]]],
                            [q \in 1..Len(nonzero) |-> merged[2][nonzero[q]]])

\* Counter(zip(forest_list, coeff_list)): keyed by Forest.__hash__ / __eq__
TermCounter(s) ==
    LET Key(i) == <<Counter(Call(s.forest_list[i], "reduce", <<>>).tree_list),
                    s.coeff_list[i]>>
        keys == {Key(i) : i \in 1..Len(s.forest_list)}
    IN  [k \in keys |-> Cardinality({i \in 1..Len(s.forest_list) : Key(i) = k})]

ForestSum_equals(s, other_sum) ==
    TermCounter(Call(s, "reduce", <<>>)) = TermCounter(Call(other_sum, "reduce", <<>>))

(***************************************************************************)
(* Ring operations: __mul__, __add__, __neg__, __sub__ of the three kinds. *)
(***************************************************************************)
_is_tree_like(v) == v.kind \in {"Tree", "Forest", "ForestSum"}

\* "if apply_reduction: out = out.reduce()" at the end of an operation
ReduceIf(red, res) ==
    IF red /\ res.kind # "error" THEN Call(res, "reduce", <<>>) ELSE res

Tree_mul(t, o, red) ==
    ReduceIf(red,
      CASE o.kind = "scalar" -> ForestSum_init(<<Forest(<<t>>)>>, <<o.num>>)
        [] o.kind = "Tree" -> Forest(<<t, o>>)
        [] o.kind = "Forest" -> Forest(<<t>> \o o.tree_list)
        [] o.kind = "ForestSum" ->
             ForestSum_init([i \in 1..Len(o.forest_list) |->
                                Call(t, "__mul__", <<o.forest_list[i], TRUE>>)],
                            o.coeff_list)
        [] OTHER -> ValueError)

Forest_mul(f, o, red) ==
    ReduceIf(red,
      CASE o.kind = "scalar" -> ForestSum_init(<<f>>, <<o.num>>)
        [] o.kind = "Tree" -> Forest(f.tree_list \o <<o>>)
        [] o.kind = "Forest" -> Forest(f.tree_list \o o.tree_list)
        [] o.kind = "ForestSum" ->
             ForestSum_init([i \in 1..Len(o.forest_list) |->
                                Call(f, "__mul__", <<o.forest_list[i], FALSE>>)],
                            o.coeff_list)
        [] OTHER -> ValueError)

\* ForestSum.__mul__ with "x + y" for the coefficients of a product of sums
ForestSum_mul_coeff_sum(s, o, red) ==
    LET k == Len(s.forest_list)
    IN  ReduceIf(red,
          CASE o.kind = "scalar" ->
                 ForestSum_init(s.forest_list, [i \in 1..k |-> s.coeff_list[i] * o.num])
            [] o.kind \in {"Tree", "Forest"} ->
                 ForestSum_init([i \in 1..k |-> Call(s.forest_list[i], "__mul__", <<o, TRUE>>)],
                                s.coeff_list)
            [] o.kind = "ForestSum" ->
                 \* for x in self.forest_list for y in other.forest_list
                 LET m == Len(o.forest_list)
                     X(q) == ((q - 1) \div m) + 1
                     Y(q) == ((q - 1) % m) + 1
                 IN  IF m = 0 THEN ForestSum_init(<<>>, <<>>)
                     ELSE ForestSum_init(
                            [q \in 1..(k * m) |->
                               Call(s.forest_list[X(q)], "__mul__", <<o.forest_list[Y(q)], TRUE>>)],
                            [q \in 1..(k * m) |-> s.coeff_list[X(q)] + o.coeff_list[Y(q)]])
            [] OTHER -> ValueError)

ForestSum_mul(s, o, red) ==
    LET k == Len(s.forest_list)
    IN  ReduceIf(red,
          CASE o.kind = "scalar" ->
                 ForestSum_init(s.forest_list, [i \in 1..k |-> s.coeff_list[i] * o.num])
            [] o.kind \in {"Tree", "Forest"} ->
                 ForestSum_init([i \in 1..k |-> Call(s.forest_list[i], "__mul__", <<o, TRUE>>)],
                                s.coeff_list)
            [] o.kind = "ForestSum" ->
                 \* for x in self.forest_list for y in other.forest_list
                 LET m == Len(o.forest_list)
                     X(q) == ((q - 1) \div m) + 1
                     Y(q) == ((q - 1) % m) + 1
                 IN  IF m = 0 THEN ForestSum_init(<<>>, <<>>)
                     ELSE ForestSum_init(
                            [q \in 1..(k * m) |->
                               Call(s.forest_list[X(q)], "__mul__", <<o.forest_list[Y(q)], TRUE>>)],
                            [q \in 1..(k * m) |-> s.coeff_list[X(q)] * o.coeff_list[Y(q)]])
            [] OTHER -> ValueError)

\* -a: the built-in for a scalar, __neg__ = __mul__(-1, False) otherwise
Neg(a) ==
    IF a.kind = "scalar" THEN Scalar(-a.num)
    ELSE Call(a, "__mul__", <<Scalar(-1), FALSE>>)

Tree_add(t, o, red) ==
    ReduceIf(red,
      CASE o.kind = "scalar" ->
             ForestSum_init(<<Forest(<<t>>), EMPTY_FOREST>>, <<1, o.num>>)
        [] o.kind = "Tree" -> ForestSum_init_ones(<<Forest(<<t>>), Forest(<<o>>)>>)
        [] o.kind = "Forest" -> ForestSum_init_ones(<<Forest(<<t>>), o>>)
        [] o.kind = "ForestSum" ->
             ForestSum_init(<<Forest(<<t>>)>> \o o.forest_list, <<1>> \o o.coeff_list)
        [] OTHER -> ValueError)

\* "out.reduce()" is not assigned: the sum is returned as built
Forest_add(f, o, red) ==
    CASE o.kind = "scalar" -> ForestSum_init(<<f, EMPTY_FOREST>>, <<1, o.num>>)
      [] o.kind = "Tree" -> ForestSum_init_ones(<<f, Forest(<<o>>)>>)
      [] o.kind = "Forest" -> ForestSum_init_ones(<<f, o>>)
      [] o.kind = "ForestSum" ->
           ForestSum_init(<<f>> \o o.forest_list, <<1>> \o o.coeff_list)
      [] OTHER -> ValueError

ForestSum_add(s, o, red) ==
    ReduceIf(red,
      CASE o.kind = "scalar" ->
             ForestSum_init(s.forest_list \o <<EMPTY_FOREST>>, s.coeff_list \o <<o.num>>)
        [] o.kind = "Tree" ->
             ForestSum_init(s.forest_list \o <<Forest(<<o>>)>>, s.coeff_list \o <<1>>)
        [] o.kind = "Forest" ->
             ForestSum_init(s.forest_list \o <<o>>, s.coeff_list \o <<1>>)
        [] o.kind = "ForestSum" ->
             ForestSum_init(s.forest_list \o o.forest_list, s.coeff_list \o o.coeff_list)
        [] OTHER -> ValueError)

Tree_sub(t, o, red) ==
    IF o.kind = "error" THEN ValueError ELSE Call(t, "__add__", <<Neg(o), red>>)

Forest_sub(f, o, red) ==
    IF o.kind = "error" THEN ValueError ELSE Call(f, "__add__", <<Neg(o), red>>)

\* "self + (- other)": the flag is not passed on, the sum is reduced
ForestSum_sub(s, o, red) ==
    IF o.kind = "error" THEN ValueError ELSE Call(s, "__add__", <<Neg(o), TRUE>>)

_mul(obj1, obj2, applyReduction) ==
    IF obj1.kind = "error" \/ obj2.kind = "error" THEN ValueError
    ELSE IF ~_is_tree_like(obj1)
    THEN IF ~_is_tree_like(obj2) THEN Scalar(obj1.num * obj2.num)
         ELSE Call(obj2, "__mul__", <<obj1, applyReduction>>)
    ELSE Call(obj1, "__mul__", <<obj2, applyReduction>>)

_add(obj1, obj2, applyReduction) ==
    IF obj1.kind = "error" \/ obj2.kind = "error" THEN ValueError
    ELSE IF ~_is_tree_like(obj1)
    THEN IF ~_is_tree_like(obj2) THEN Scalar(obj1.num + obj2.num)
         ELSE Call(obj2, "__add__", <<obj1, applyReduction>>)
    ELSE Call(obj1, "__add__", <<obj2, applyReduction>>)

(***************************************************************************)
(* Polymorphic equality, __eq__.                                           *)
(***************************************************************************)
\* other * EMPTY_TREE for a scalar other: Tree.__rmul__ with reduction
ScalarTimesEmpty(o) == Call(EMPTY_TREE, "__mul__", <<o, TRUE>>)

ForestSum_eq(s, o) ==
    CASE o.kind = "scalar" -> Call(s, "_equals", <<ScalarTimesEmpty(o)>>)
      [] o.kind = "Tree" -> Call(s, "_equals", <<Tree_as_forest_sum(o)>>)
      [] o.kind = "Forest" -> Call(s, "_equals", <<Forest_as_forest_sum(o)>>)
      [] o.kind = "ForestSum" -> Call(s, "_equals", <<o>>)

Forest_eq(f, o) ==
    CASE o.kind = "scalar" -> Call(Forest_as_forest_sum(f), "__eq__", <<ScalarTimesEmpty(o)>>)
      [] o.kind = "Tree" -> Call(f, "_equals", <<Tree_as_forest(o)>>)
      [] o.kind = "Forest" -> Call(f, "_equals", <<o>>)
      [] o.kind = "ForestSum" -> Call(Forest_as_forest_sum(f), "__eq__", <<o>>)

\* Tree.__eq__ comparing as_forest() with a Forest factor by factor
Tree_eq_unreduced(t, o) ==
    CASE o.kind = "scalar" -> Call(Tree_as_forest_sum(t), "__eq__", <<ScalarTimesEmpty(o)>>)
      [] o.kind = "Tree" -> Call(t, "_equals", <<o>>)
      [] o.kind = "Forest" -> Tree_as_forest(t) = o
      [] o.kind = "ForestSum" -> Call(Tree_as_forest_sum(t), "__eq__", <<o>>)

Tree_eq(t, o) ==
    CASE o.kind = "scalar" -> Call(Tree_as_forest_sum(t), "__eq__", <<ScalarTimesEmpty(o)>>)
      [] o.kind = "Tree" -> Call(t, "_equals", <<o>>)
      [] o.kind = "Forest" -> Call(Tree_as_forest(t), "__eq__", <<o>>)
      [] o.kind = "ForestSum" -> Call(Tree_as_forest_sum(t), "__eq__", <<o>>)

(***************************************************************************)
(* The coproduct, Tree.split.                                              *)
(***************************************************************************)
\* zip(*lists) in the place of itertools.product(*lists): the i-th entries only
itertools_zip(lists) ==
    IF lists = <<>> THEN << <<>> >>
    ELSE LET shortest == CHOOSE m \in {Len(lists[j]) : j \in 1..Len(lists)} :
                            \A j \in 1..Len(lists) : m <= Len(lists[j])
         IN  tuple([i \in 1..shortest |-> tuple([j \in 1..Len(lists) |-> lists[j][i]])])

\* itertools.product(*lists): tuples in lexicographic order, last index fastest
RECURSIVE itertools_product(_)
RECURSIVE PrependEach(_, _, _)
PrependEach(first, rest, i) ==
    IF i > Len(first) THEN <<>>
    ELSE [j \in 1..Len(rest) |-> <<first[i]>> \o rest[j]] \o PrependEach(first, rest, i + 1)

itertools_product(lists) ==
    IF lists = <<>> THEN << <<>> >>
    ELSE PrependEach(Head(lists), itertools_product(Tail(lists)), 1)

\* "t = f.tree_list" in the place of "t += f.tree_list": the last forest only
ConcatTrees_last(p) == IF p = <<>> THEN <<>> ELSE p[Len(p)].tree_list

\* the concatenation of the tree lists of the forests of p
RECURSIVE ConcatTrees(_)
ConcatTrees(p) ==
    IF p = <<>> THEN <<>> ELSE Head(p).tree_list \o ConcatTrees(Tail(p))

\* tuple(t.list_repr for t in p): the filter on None left out
KeptReprsAll(p) == tuple([i \in 1..Len(p) |-> p[i].list_repr])

\* tuple(t.list_repr for t in p if t.list_repr is not None)
KeptReprs(p) ==
    LET kept == SelectSeq(p, LAMBDA t : ~t.none)
    IN  tuple([i \in 1..Len(kept) |-> kept[i].list_repr])

\* <<new_tree_list, new_forest_list>>: the kept trees and the removed forests
Tree_split(t) ==
    IF t.none THEN << <<EMPTY_TREE>>, <<EMPTY_FOREST>> >>
    ELSE IF t.list_repr = <<>>
    THEN << <<SINGLETON_TREE, EMPTY_TREE>>, <<EMPTY_FOREST, SINGLETON_FOREST>> >>
    ELSE LET k == Len(t.list_repr)
             sb == tuple([i \in 1..k |-> Call(Tree(t.list_repr[i]), "split", <<>>)])
             tree_list == tuple([i \in 1..k |-> sb[i][1]])
             forest_list == tuple([i \in 1..k |-> sb[i][2]])
             ptrees == itertools_product(tree_list)
             pforests == itertools_product(forest_list)
         IN  << <<EMPTY_TREE>> \o
                  [q \in 1..Len(ptrees) |-> Tree(KeptReprs(ptrees[q]))],
                <<Forest(<<t>>)>> \o
                  [q \in 1..Len(pforests) |-> Forest(ConcatTrees(pforests[q]))] >>

(***************************************************************************)
(* The antipode.                                                           *)
(***************************************************************************)
\* the body of the loop of Tree.antipode without "subtrees[i]._equals(self)"
AntipodeStepNoSkip(t, subtrees, branches, i, acc) ==
    IF Call(subtrees[i], "_equals", <<EMPTY_TREE>>)
    THEN acc
    ELSE LET term == Call(Call(branches[i], "antipode", <<FALSE>>),
                          "__mul__", <<subtrees[i], FALSE>>)
         IN  IF term.kind = "error" THEN term
             ELSE Call(acc, "__sub__", <<term, FALSE>>)

\* one pass of the body of the loop of Tree.antipode, for the cut pair i
AntipodeStep(t, subtrees, branches, i, acc) ==
    IF \/ Call(subtrees[i], "_equals", <<t>>)
       \/ Call(subtrees[i], "_equals", <<EMPTY_TREE>>)
    THEN acc
    ELSE LET term == Call(Call(branches[i], "antipode", <<FALSE>>),
                          "__mul__", <<subtrees[i], FALSE>>)
         IN  IF term.kind = "error" THEN term
             ELSE Call(acc, "__sub__", <<term, FALSE>>)

\* the loop of Tree.antipode over the cut pairs lo..hi, in order, started
\* from acc; an exception ends it
RECURSIVE AntipodeLoop(_, _, _, _, _, _)
AntipodeLoop(t, subtrees, branches, lo, hi, acc) ==
    CASE lo > hi \/ acc.kind = "error" -> acc
      [] lo = hi -> AntipodeStep(t, subtrees, branches, lo, acc)
      [] OTHER ->
           LET mid == (lo + hi) \div 2
               left == AntipodeLoop(t, subtrees, branches, lo, mid, acc)
           IN  IF left.kind = "error" THEN left
               ELSE AntipodeLoop(t, subtrees, branches, mid + 1, hi, left)

\* Tree.antipode returning -1 * EMPTY_FOREST_SUM for the single-node tree
Tree_antipode_unit_scalar(t, red) ==
    IF t.none THEN EMPTY_FOREST_SUM
    ELSE IF t.list_repr = <<>>
    THEN Call(EMPTY_FOREST_SUM, "__mul__", <<Scalar(-1), FALSE>>)
    ELSE LET sp == Call(t, "split", <<>>)
         IN  ReduceIf(red, AntipodeLoop(t, sp[1], sp[2], 1, Len(sp[1]),
                                       Neg(Tree_as_forest_sum(t))))

\* Tree.antipode starting its sum from +t in the place of -t
Tree_antipode_plus_self(t, red) ==
    IF t.none THEN EMPTY_FOREST_SUM
    ELSE IF t.list_repr = <<>>
    THEN Call(SINGLETON_FOREST_SUM, "__mul__", <<Scalar(-1), FALSE>>)
    ELSE LET sp == Call(t, "split", <<>>)
         IN  ReduceIf(red, AntipodeLoop(t, sp[1], sp[2], 1, Len(sp[1]),
                                       Tree_as_forest_sum(t)))

Tree_antipode(t, red) ==
    IF t.none THEN EMPTY_FOREST_SUM
    ELSE IF t.list_repr = <<>>
    THEN Call(SINGLETON_FOREST_SUM, "__mul__", <<Scalar(-1), FALSE>>)
    ELSE LET sp == Call(t, "split", <<>>)
         IN  ReduceIf(red, AntipodeLoop(t, sp[1], sp[2], 1, Len(sp[1]),
                                       Neg(Tree_as_forest_sum(t))))

\* the loop of Forest.antipode over the trees lo..hi, in order
RECURSIVE ForestAntipodeLoop(_, _, _, _)
ForestAntipodeLoop(f, lo, hi, acc) ==
    CASE lo > hi \/ acc.kind = "error" -> acc
      [] lo = hi -> Call(acc, "__mul__", <<Call(f.tree_list[lo], "antipode", <<FALSE>>), FALSE>>)
      [] OTHER ->
           LET mid == (lo + hi) \div 2
               left == ForestAntipodeLoop(f, lo, mid, acc)
           IN  IF left.kind = "error" THEN left
               ELSE ForestAntipodeLoop(f, mid + 1, hi, left)

\* Forest.antipode taking the empty product, 1, for the empty forest
Forest_antipode_empty_product(f, red) ==
    IF f.tree_list = <<>> THEN EMPTY_FOREST_SUM
    ELSE IF Len(f.tree_list) = 1 /\ Call(f.tree_list[1], "_equals", <<SINGLETON_TREE>>)
    THEN Neg(SINGLETON_FOREST_SUM)
    ELSE ReduceIf(red,
           ForestAntipodeLoop(f, 2, Len(f.tree_list),
                              Call(f.tree_list[1], "antipode", <<FALSE>>)))

Forest_antipode(f, red) ==
    IF f.tree_list = <<>> THEN ValueError
    ELSE IF Len(f.tree_list) = 1 /\ Call(f.tree_list[1], "_equals", <<SINGLETON_TREE>>)
    THEN Neg(SINGLETON_FOREST_SUM)
    ELSE ReduceIf(red,
           ForestAntipodeLoop(f, 2, Len(f.tree_list),
                              Call(f.tree_list[1], "antipode", <<FALSE>>)))

(***************************************************************************)
(* Tree functions and the convolution engine: apply, apply_product,        *)
(* apply_power.  A tree function is a value of kind "function": one the    *)
(* host supplies (HostFunc), _counit, or a lambda the library builds,      *)
(* closing over (func, n, apply_reduction).                                *)
(***************************************************************************)
HostFunc(id) == [kind |-> "function", fn |-> "host", id |-> id]

CounitFunc == [kind |-> "function", fn |-> "counit"]

\* lambda x : x.apply_power(func, k, red)
PowerLambda(func, k, red) ==
    [kind |-> "function", fn |-> "power", func |-> func, n |-> k, red |-> red]

\* lambda x : x.apply_product(func1, func2, red)
ProductLambda(f1, f2, red) ==
    [kind |-> "function", fn |-> "product", func1 |-> f1, func2 |-> f2, red |-> red]

_counit(t) == IF t.none THEN EMPTY_FOREST_SUM ELSE ZERO_FOREST_SUM

\* the functions the host supplies
HostCall(id, t) ==
    CASE id = "identity" -> t
      [] id = "antipode" -> Call(t, "antipode", <<TRUE>>)
      [] id = "nodes" -> Scalar(Tree_nodes(t))
      [] id = "one_plus_nodes" -> Scalar(1 + Tree_nodes(t))
      [] id = "factorial" -> Scalar(Tree_factorial(t))

\* func(t)
CallFunc(func, t) ==
    CASE func.fn = "host" -> HostCall(func.id, t)
      [] func.fn = "counit" -> _counit(t)
      [] func.fn = "power" -> Call(t, "apply_power", <<func.func, func.n, func.red>>)
      [] func.fn = "product" ->
           Call(t, "apply_product", <<func.func1, func.func2, func.red>>)

Tree_apply(t, func, red) == CallFunc(func, t)

\* "if apply_reduction and not isinstance(out, (int, float, Tree))"
ReduceUnless(red, kinds, res) ==
    IF red /\ res.kind \notin (kinds \cup {"error"}) THEN Call(res, "reduce", <<>>) ELSE res

\* the loop of Forest.apply, also the inner loop of ForestSum.apply, over
\* the trees lo..hi, in order, started from acc; an exception ends it
RECURSIVE ForestApplyLoop(_, _, _, _, _)
ForestApplyLoop(tree_list, func, lo, hi, acc) ==
    CASE lo > hi \/ acc.kind = "error" -> acc
      [] lo = hi -> _mul(acc, CallFunc(func, tree_list[lo]), FALSE)
      [] OTHER ->
           LET mid == (lo + hi) \div 2
               left == ForestApplyLoop(tree_list, func, lo, mid, acc)
           IN  IF left.kind = "error" THEN left
               ELSE ForestApplyLoop(tree_list, func, mid + 1, hi, left)

Forest_apply(f, func, red) ==
    ReduceUnless(red, {"scalar", "Tree"},
                 ForestApplyLoop(f.tree_list, func, 1, Len(f.tree_list), Scalar(1)))

\* one pass of the body of the outer loop of ForestSum.apply, for term i
SumApplyStep(s, func, i, acc) ==
    LET tree_list == s.forest_list[i].tree_list
        term == ForestApplyLoop(tree_list, func, 1, Len(tree_list), Scalar(1))
    IN  _add(acc, _mul(term, Scalar(s.coeff_list[i]), FALSE), FALSE)

\* the loop of ForestSum.apply over the terms lo..hi, in order
RECURSIVE SumApplyLoop(_, _, _, _, _)
SumApplyLoop(s, func, lo, hi, acc) ==
    CASE lo > hi \/ acc.kind = "error" -> acc
      [] lo = hi -> SumApplyStep(s, func, lo, acc)
      [] OTHER ->
           LET mid == (lo + hi) \div 2
               left == SumApplyLoop(s, func, lo, mid, acc)
           IN  IF left.kind = "error" THEN left
               ELSE SumApplyLoop(s, func, mid + 1, hi, left)

ForestSum_apply(s, func, red) ==
    ReduceUnless(red, {"scalar", "Tree"},
                 SumApplyLoop(s, func, 1, Len(s.forest_list), Scalar(0)))

\* ForestSum.apply_power applying func itself, whatever the exponent
ForestSum_apply_power_first(s, func, k, red) ==
    Call(s, "apply", <<PowerLambda(func, 1, red), TRUE>>)

ForestSum_apply_power(s, func, k, red) ==
    Call(s, "apply", <<PowerLambda(func, k, red), TRUE>>)

Forest_apply_power(f, func, k, red) ==
    Call(f, "apply", <<PowerLambda(func, k, red), TRUE>>)

ForestSum_apply_product(s, f1, f2, red) ==
    Call(s, "apply", <<ProductLambda(f1, f2, red), TRUE>>)

\* "self.apply(lambda ...)" with no return: the value is dropped and the
\* method falls off with None, unless apply raised
Forest_apply_product(f, f1, f2, red) ==
    LET dropped == Call(f, "apply", <<ProductLambda(f1, f2, red), TRUE>>)
    IN  IF dropped.kind = "error" THEN dropped ELSE PyNone

\* f1(subtrees[i]) * f2(branches[i]): the two sides of the cut exchanged
ProductTermSwapped(subtrees, branches, f1, f2, i) ==
    _mul(Tree_apply(subtrees[i], f1, TRUE),
         Call(branches[i], "apply", <<f2, TRUE>>), FALSE)

\* f1(branches[i]) * f2(subtrees[i])
ProductTerm(subtrees, branches, f1, f2, i) ==
    _mul(Call(branches[i], "apply", <<f1, TRUE>>),
         Tree_apply(subtrees[i], f2, TRUE), FALSE)

\* the loop of Tree.apply_product over the cut pairs lo..hi, in order
RECURSIVE ProductLoop(_, _, _, _, _, _, _)
ProductLoop(subtrees, branches, f1, f2, lo, hi, acc) ==
    CASE lo > hi \/ acc.kind = "error" -> acc
      [] lo = hi -> _add(acc, ProductTerm(subtrees, branches, f1, f2, lo), FALSE)
      [] OTHER ->
           LET mid == (lo + hi) \div 2
               left == ProductLoop(subtrees, branches, f1, f2, lo, mid, acc)
           IN  IF left.kind = "error" THEN left
               ELSE ProductLoop(subtrees, branches, f1, f2, mid + 1, hi, left)

\* Tree.apply_product with "out = 0" before the loop: pair 0 is lost
Tree_apply_product_skip_first(t, f1, f2, red) ==
    LET sp == Call(t, "split", <<>>)
    IN  IF Len(sp[1]) = 0 THEN Scalar(0)
        ELSE ReduceUnless(red, {"scalar"},
               ProductLoop(sp[1], sp[2], f1, f2, 2, Len(sp[1]), Scalar(0)))

Tree_apply_product(t, f1, f2, red) ==
    LET sp == Call(t, "split", <<>>)
    IN  IF Len(sp[1]) = 0 THEN Scalar(0)
        ELSE ReduceUnless(red, {"scalar"},
               ProductLoop(sp[1], sp[2], f1, f2, 2, Len(sp[1]),
                           ProductTerm(sp[1], sp[2], f1, f2, 1)))

\* Tree.apply_power with "self.antipode()" left out of the case n < 0
Tree_apply_power_no_antipode(t, func, k, red) ==
    IF k = 0 THEN Call(t, "apply", <<CounitFunc, TRUE>>)
    ELSE IF k = 1 THEN Call(t, "apply", <<func, red>>)
    ELSE ReduceUnless(red, {"scalar", "Tree"},
           IF k < 0
           THEN Call(t, "apply_power", <<func, -k, FALSE>>)
           ELSE Call(t, "apply_product", <<func, PowerLambda(func, k - 1, FALSE), FALSE>>))

Tree_apply_power(t, func, k, red) ==
    IF k = 0 THEN Call(t, "apply", <<CounitFunc, TRUE>>)
    ELSE IF k = 1 THEN Call(t, "apply", <<func, red>>)
    ELSE ReduceUnless(red, {"scalar", "Tree"},
           IF k < 0
           THEN Call(Call(t, "antipode", <<TRUE>>), "apply_power", <<func, -k, FALSE>>)
           ELSE Call(t, "apply_product", <<func, PowerLambda(func, k - 1, FALSE), FALSE>>))

(***************************************************************************)
(* sign, signed_antipode, the antipode of a sum, powers, "*=" and          *)
(* singleton_reduced.                                                      *)
(***************************************************************************)
\* a raised exception other than ValueError
Raised(exc) == [kind |-> "error", exc |-> exc]

\* a python float num / den, as an exponent
Float(num, den) == [kind |-> "float", num |-> num, den |-> den]

Tree_sign(t) == IF Tree_nodes(t) % 2 = 0 THEN t ELSE Neg(t)

\* ForestSum.sign negating the terms with an even number of nodes
ForestSum_sign_even(s) ==
    ForestSum_init(s.forest_list,
                   [i \in 1..Len(s.coeff_list) |->
                       IF Forest_nodes(s.forest_list[i]) % 2 = 0
                       THEN -s.coeff_list[i] ELSE s.coeff_list[i]])

ForestSum_sign(s) ==
    ForestSum_init(s.forest_list,
                   [i \in 1..Len(s.coeff_list) |->
                       IF Forest_nodes(s.forest_list[i]) % 2 = 0
                       THEN s.coeff_list[i] ELSE -s.coeff_list[i]])

\* the loop of ForestSum.antipode over the terms lo..hi, in order
RECURSIVE SumAntipodeLoop(_, _, _, _)
SumAntipodeLoop(s, lo, hi, acc) ==
    CASE lo > hi \/ acc.kind = "error" -> acc
      [] lo = hi ->
           LET term == _mul(Scalar(s.coeff_list[lo]),
                            Call(s.forest_list[lo], "antipode", <<FALSE>>), FALSE)
           IN  IF term.kind = "error" THEN term
               ELSE Call(acc, "__add__", <<term, FALSE>>)
      [] OTHER ->
           LET mid == (lo + hi) \div 2
               left == SumAntipodeLoop(s, lo, mid, acc)
           IN  IF left.kind = "error" THEN left
               ELSE SumAntipodeLoop(s, mid + 1, hi, left)

\* ForestSum.antipode with the first term not multiplied by its coefficient
ForestSum_antipode_first_unscaled(s, red) ==
    IF Len(s.forest_list) = 0 THEN Raised("IndexError")
    ELSE LET first == Call(s.forest_list[1], "antipode", <<TRUE>>)
         IN  IF first.kind = "error" THEN first
             ELSE ReduceIf(red, SumAntipodeLoop(s, 2, Len(s.forest_list), first))

\* "self.coeff_list[0] * self.forest_list[0].antipode()" is the reflected
\* ForestSum.__mul__ with the default reduction
ForestSum_antipode(s, red) ==
    IF Len(s.forest_list) = 0 THEN Raised("IndexError")
    ELSE LET first == Call(s.forest_list[1], "antipode", <<TRUE>>)
         IN  IF first.kind = "error" THEN first
             ELSE ReduceIf(red,
                    SumAntipodeLoop(s, 2, Len(s.forest_list),
                                    Call(first, "__mul__",
                                         <<Scalar(s.coeff_list[1]), TRUE>>)))

Tree_signed_antipode(t) == Call(Call(t, "sign", <<>>), "antipode", <<TRUE>>)

\* "not isinstance(n, int) or n < 0"
InvalidExponent(e) == e.kind # "scalar" \/ e.num < 0

\* tree_list * k: k copies of the tuple, one after the other
RECURSIVE Repeat(_, _)
Repeat(tree_list, k) == IF k <= 0 THEN <<>> ELSE tree_list \o Repeat(tree_list, k - 1)

Tree_pow(t, e, red) ==
    IF InvalidExponent(e) THEN ValueError
    ELSE IF e.num = 0 THEN EMPTY_TREE
    ELSE ReduceIf(red, Forest(Repeat(<<t>>, e.num)))

Forest_pow(f, e, red) ==
    IF InvalidExponent(e) THEN ValueError
    ELSE IF e.num = 0 THEN Forest(<<EMPTY_TREE>>)
    ELSE ReduceIf(red, Forest(Repeat(f.tree_list, e.num)))

\* "for i in range(n-1): temp = temp.__mul__(self, False)", k passes left
RECURSIVE SumPowLoop(_, _, _)
SumPowLoop(s, k, temp) ==
    IF k <= 0 THEN temp
    ELSE SumPowLoop(s, k - 1, Call(temp, "__mul__", <<s, FALSE>>))

\* ForestSum.__pow__ with range(n) in place of range(n - 1)
ForestSum_pow_one_more(s, e, red) ==
    IF InvalidExponent(e) THEN ValueError
    ELSE IF e.num = 0 THEN Tree_as_forest_sum(EMPTY_TREE)
    ELSE ReduceIf(red, SumPowLoop(s, e.num, s))

ForestSum_pow(s, e, red) ==
    IF InvalidExponent(e) THEN ValueError
    ELSE IF e.num = 0 THEN Tree_as_forest_sum(EMPTY_TREE)
    ELSE ReduceIf(red, SumPowLoop(s, e.num - 1, s))

\* Forest.__imul__ on a Forest whose tree_list is a list on an unfrozen
\* object: the trees are appended in place
Forest_imul_in_place(f, o) ==
    CASE o.kind = "Tree" ->
           [self |-> [f EXCEPT !.tree_list = @ \o <<o>>],
            out |-> [f EXCEPT !.tree_list = @ \o <<o>>]]
      [] o.kind = "Forest" ->
           [self |-> [f EXCEPT !.tree_list = @ \o o.tree_list],
            out |-> [f EXCEPT !.tree_list = @ \o o.tree_list]]
      [] OTHER -> [self |-> f, out |-> PyNone]

\* Forest.__imul__: the Forest after the call and what the call returns or
\* raises.  tree_list is a tuple (__post_init__), which has no append, and
\* the dataclass is frozen, which refuses the assignment of "+="
Forest_imul(f, o) ==
    CASE o.kind = "Tree" -> [self |-> f, out |-> Raised("AttributeError")]
      [] o.kind = "Forest" -> [self |-> f, out |-> Raised("FrozenInstanceError")]
      [] OTHER -> [self |-> f, out |-> PyNone]

\* Forest.singleton_reduced keeping the single-node trees
Forest_singleton_reduced_keep(f) ==
    Call(f, "reduce", <<>>)

Forest_singleton_reduced(f) ==
    LET reduced == Call(f, "reduce", <<>>)
    IN  IF Len(reduced.tree_list) > 1
        THEN LET new_tree_list ==
                    SelectSeq(reduced.tree_list, LAMBDA x : x.none \/ x.list_repr # <<>>)
             IN  Forest(IF Len(new_tree_list) = 0 THEN <<SINGLETON_TREE>>
                        ELSE new_tree_list)
        ELSE reduced

ForestSum_singleton_reduced(s) ==
    ForestSum_init([i \in 1..Len(s.forest_list) |->
                       Call(s.forest_list[i], "singleton_reduced", <<>>)],
                   s.coeff_list)

(***************************************************************************)
(* Method resolution: by the class of obj and the name of the method.      *)
(* An exception raised while obj was computed propagates.                  *)
(***************************************************************************)
\* functools.lru_cache on Tree.antipode, Tree.apply_power and
\* Tree.apply_product.  The key of a call is made of its arguments, hashed
\* with hash() and compared with ==: a tree by its sorted list_repr, a
\* function by identity.  Calls that pass a default in different ways share
\* a key here.
CacheKey_without_arguments(m, t, a) == <<m, Tree_sorted_list_repr(t), <<>> >>

CacheKey(m, t, a) == <<m, Tree_sorted_list_repr(t), a>>

\* the call finds its key in the cache; a lambda the library builds is a new
\* object at every call, equal to no key
Hit(m, t, a) ==
    /\ m = "apply_power" => a[1].fn = "host"
    /\ m = "apply_product" => a[1].fn = "host" /\ a[2].fn = "host"
    /\ CacheKey(m, t, a) \in DOMAIN cache

Call(obj, m, a) ==
    CASE obj.kind = "error" -> obj
      [] obj.kind = "function" -> CallFunc(obj, a[1])
      [] obj.kind = "Tree" /\ m = "_equals" -> Tree_equals(obj, a[1])
      [] obj.kind = "Tree" /\ m = "__eq__" -> Tree_eq(obj, a[1])
      [] obj.kind = "Tree" /\ m = "__mul__" -> Tree_mul(obj, a[1], a[2])
      [] obj.kind = "Tree" /\ m = "__add__" -> Tree_add(obj, a[1], a[2])
      [] obj.kind = "Tree" /\ m = "__sub__" -> Tree_sub(obj, a[1], a[2])
      [] obj.kind = "Tree" /\ m = "split" -> Tree_split(obj)
      [] obj.kind = "Tree" /\ m = "antipode" ->
           IF Hit(m, obj, a) THEN cache[CacheKey(m, obj, a)]
           ELSE Tree_antipode(obj, a[1])
      [] obj.kind = "Tree" /\ m = "apply" -> Tree_apply(obj, a[1], a[2])
      [] obj.kind = "Tree" /\ m = "apply_power" ->
           IF Hit(m, obj, a) THEN cache[CacheKey(m, obj, a)]
           ELSE Tree_apply_power(obj, a[1], a[2], a[3])
      [] obj.kind = "Tree" /\ m = "apply_product" ->
           IF Hit(m, obj, a) THEN cache[CacheKey(m, obj, a)]
           ELSE Tree_apply_product(obj, a[1], a[2], a[3])
      [] obj.kind = "Tree" /\ m = "sign" -> Tree_sign(obj)
      [] obj.kind = "Tree" /\ m = "signed_antipode" -> Tree_signed_antipode(obj)
      [] obj.kind = "Tree" /\ m = "__pow__" -> Tree_pow(obj, a[1], a[2])
      [] obj.kind = "Forest" /\ m = "reduce" -> Forest_reduce(obj)
      [] obj.kind = "Forest" /\ m = "_equals" -> Forest_equals(obj, a[1])
      [] obj.kind = "Forest" /\ m = "__eq__" -> Forest_eq(obj, a[1])
      [] obj.kind = "Forest" /\ m = "__mul__" -> Forest_mul(obj, a[1], a[2])
      [] obj.kind = "Forest" /\ m = "__add__" -> Forest_add(obj, a[1], a[2])
      [] obj.kind = "Forest" /\ m = "__sub__" -> Forest_sub(obj, a[1], a[2])
      [] obj.kind = "Forest" /\ m = "antipode" -> Forest_antipode(obj, a[1])
      [] obj.kind = "Forest" /\ m = "apply" -> Forest_apply(obj, a[1], a[2])
      [] obj.kind = "Forest" /\ m = "apply_power" -> Forest_apply_power(obj, a[1], a[2], a[3])
      [] obj.kind = "Forest" /\ m = "apply_product" ->
           Forest_apply_product(obj, a[1], a[2], a[3])
      [] obj.kind = "Forest" /\ m = "__pow__" -> Forest_pow(obj, a[1], a[2])
      [] obj.kind = "Forest" /\ m = "singleton_reduced" -> Forest_singleton_reduced(obj)
      [] obj.kind = "ForestSum" /\ m = "reduce" -> ForestSum_reduce(obj)
      [] obj.kind = "ForestSum" /\ m = "_equals" -> ForestSum_equals(obj, a[1])
      [] obj.kind = "ForestSum" /\ m = "__eq__" -> ForestSum_eq(obj, a[1])
      [] obj.kind = "ForestSum" /\ m = "__mul__" -> ForestSum_mul(obj, a[1], a[2])
      [] obj.kind = "ForestSum" /\ m = "__add__" -> ForestSum_add(obj, a[1], a[2])
      [] obj.kind = "ForestSum" /\ m = "__sub__" -> ForestSum_sub(obj, a[1], a[2])
      [] obj.kind = "ForestSum" /\ m = "apply" -> ForestSum_apply(obj, a[1], a[2])
      [] obj.kind = "ForestSum" /\ m = "apply_power" -> ForestSum_apply_power(obj, a[1], a[2], a[3])
      [] obj.kind = "ForestSum" /\ m = "apply_product" ->
           ForestSum_apply_product(obj, a[1], a[2], a[3])
      [] obj.kind = "ForestSum" /\ m = "antipode" -> ForestSum_antipode(obj, a[1])
      [] obj.kind = "ForestSum" /\ m = "sign" -> ForestSum_sign(obj)
      [] obj.kind = "ForestSum" /\ m = "__pow__" -> ForestSum_pow(obj, a[1], a[2])
      [] obj.kind = "ForestSum" /\ m = "singleton_reduced" -> ForestSum_singleton_reduced(obj)

\* a == b as python evaluates it: the left operand's __eq__, the reflected
\* one when the left operand is a scalar
Eq(a, b) ==
    IF a.kind = "scalar"
    THEN IF b.kind = "scalar" THEN a.num = b.num ELSE Call(b, "__eq__", <<a>>)
    ELSE Call(a, "__eq__", <<b>>)

(***************************************************************************)
(* The inputs a host can construct, within the bounds.                     *)
(***************************************************************************)
\* the nested tuples with exactly k nodes / the tuples of them with k nodes in all
RECURSIVE ChildrenOfSize(_)
ChildrenOfSize(k) ==
    IF k = 0 THEN {<<>>}
    ELSE UNION {{<<first>> \o rest : first \in ChildrenOfSize(j - 1),
                                     rest \in ChildrenOfSize(k - j)} : j \in 1..k}

ReprsOfSize(k) == ChildrenOfSize(k - 1)

\* Tree(None) and every Tree(rep) with at most MaxNodes nodes
TreeUniverse ==
    {EMPTY_TREE} \cup UNION {{Tree(rep) : rep \in ReprsOfSize(k)} : k \in 1..MaxNodes}

\* the functions the host passes to apply_product
HostFuncs == {"identity", "antipode", "nodes", "one_plus_nodes"}

\* the functions the host passes to apply_power
PowerFuncs == {"identity", "nodes", "one_plus_nodes"}

NoValue == [kind |-> "none"]

Bool(b) == [kind |-> "bool", val |-> b]

(***************************************************************************)
(* State machine: a host constructs a tree and calls one operation on it.  *)
(***************************************************************************)
Init ==
    /\ cache = <<>>
    /\ pc = <<>>
    /\ self \in TreeUniverse
    /\ other = NoValue
    /\ op = "init"
    /\ func1 = ""
    /\ func2 = ""
    /\ n = 0
    /\ apply_reduction = TRUE
    /\ out = NoValue

\* the host drops the result and constructs the next tree
Construct ==
    /\ op # "init"
    /\ self' \in TreeUniverse
    /\ other' = NoValue
    /\ op' = "init"
    /\ func1' = ""
    /\ func2' = ""
    /\ n' = 0
    /\ apply_reduction' = TRUE
    /\ out' = NoValue
    /\ UNCHANGED <<cache, pc>>

Split ==
    /\ op = "init" /\ self.kind = "Tree"
    /\ op' = "split"
    /\ out' = LET sp == Call(self, "split", <<>>)
              IN  [kind |-> "split", subtrees |-> sp[1], branches |-> sp[2]]
    /\ UNCHANGED <<cache, pc, self, other, func1, func2, n, apply_reduction>>

Antipode ==
    /\ op = "init" /\ self.kind = "Tree"
    /\ \E red \in BOOLEAN :
         /\ apply_reduction' = red
         /\ out' = Call(self, "antipode", <<red>>)
    /\ op' = "antipode"
    /\ UNCHANGED <<cache, pc, self, other, func1, func2, n>>

ApplyProduct ==
    /\ op = "init" /\ self.kind = "Tree"
    /\ \E f \in HostFuncs, g \in HostFuncs, red \in BOOLEAN :
         /\ func1' = f
         /\ func2' = g
         /\ apply_reduction' = red
         /\ out' = Call(self, "apply_product", <<HostFunc(f), HostFunc(g), red>>)
    /\ op' = "apply_product"
    /\ UNCHANGED <<cache, pc, self, other, n>>

ApplyPower ==
    /\ op = "init" /\ self.kind = "Tree"
    /\ \E f \in PowerFuncs, k \in (-MaxPower)..MaxPower, red \in BOOLEAN :
         /\ func1' = f
         /\ n' = k
         /\ apply_reduction' = red
         /\ out' = Call(self, "apply_power", <<HostFunc(f), k, red>>)
    /\ op' = "apply_power"
    /\ UNCHANGED <<cache, pc, self, other, func2>>

\* out = self.apply_product(f^k, f^-k, red), the powers being the lambdas
\* x -> x.apply_power(f, k) and x -> x.apply_power(f, -k), f itself for k = 1;
\* f is one of the integer-valued host functions with f(void) = 1
ApplyInverse ==
    /\ op = "init" /\ self.kind = "Tree"
    /\ \E f \in {"one_plus_nodes", "factorial"}, k \in 1..MaxPower, red \in BOOLEAN :
         /\ func1' = f
         /\ n' = k
         /\ apply_reduction' = red
         /\ out' = Call(self, "apply_product",
                        <<IF k = 1 THEN HostFunc(f) ELSE PowerLambda(HostFunc(f), k, TRUE),
                          PowerLambda(HostFunc(f), -k, TRUE), red>>)
    /\ op' = "apply_inverse"
    /\ UNCHANGED <<cache, pc, self, other, func2>>

\* nodes(), factorial(), sigma(), hash(): the scalar invariants of a tree
Measure ==
    /\ op = "init" /\ self.kind = "Tree"
    /\ \E m \in {"nodes", "factorial", "sigma", "hash"} :
         /\ op' = m
         /\ out' = Scalar(CASE m = "nodes" -> Tree_nodes(self)
                            [] m = "factorial" -> Tree_factorial(self)
                            [] m = "sigma" -> Tree_sigma(self)
                            [] m = "hash" -> Tree_hash(self))
    /\ UNCHANGED <<cache, pc, self, other, func1, func2, n, apply_reduction>>

\* self == u for a second tree u
TreeEq ==
    /\ op = "init" /\ self.kind = "Tree"
    /\ \E u \in TreeUniverse :
         /\ other' = u
         /\ out' = Bool(Eq(self, u))
    /\ op' = "eq"
    /\ UNCHANGED <<cache, pc, self, func1, func2, n, apply_reduction>>

Next ==
    \/ Construct
    \/ Split
    \/ Antipode
    \/ ApplyProduct
    \/ ApplyPower
    \/ ApplyInverse
    \/ Measure
    \/ TreeEq

Spec == Init /\ [][Next]_vars

(***************************************************************************)
(* State machine: a host builds a forest from a tree (unjoin, as_forest,   *)
(* products with further trees) and compares it with a second forest.      *)
(***************************************************************************)
\* the most factors a forest is grown to
MaxFactors == 3

\* the trees the host multiplies a forest by
FactorTrees == {EMPTY_TREE, SINGLETON_TREE, Tree(<< <<>> >>)}

\* the forests one call on a tree returns
BuiltForests ==
    {Tree_unjoin(t) : t \in TreeUniverse} \cup {Tree_as_forest(t) : t \in TreeUniverse}

Unjoin ==
    /\ op = "init" /\ self.kind = "Tree"
    /\ self' = Tree_unjoin(self)
    /\ op' = "forest"
    /\ UNCHANGED <<cache, pc, other, func1, func2, n, apply_reduction, out>>

AsForest ==
    /\ op = "init" /\ self.kind = "Tree"
    /\ self' = Tree_as_forest(self)
    /\ op' = "forest"
    /\ UNCHANGED <<cache, pc, other, func1, func2, n, apply_reduction, out>>

\* self = self.__mul__(u, red) for a tree u
ForestMul ==
    /\ op = "forest" /\ self.kind = "Forest"
    /\ Len(self.tree_list) < MaxFactors
    /\ \E u \in FactorTrees, red \in BOOLEAN :
         /\ apply_reduction' = red
         /\ self' = Call(self, "__mul__", <<u, red>>)
    /\ UNCHANGED <<cache, pc, other, op, func1, func2, n, out>>

\* self == g for a second forest g
ForestEq ==
    /\ op = "forest" /\ self.kind = "Forest"
    /\ \E g \in BuiltForests :
         /\ other' = g
         /\ out' = Bool(Eq(self, g))
    /\ op' = "forest_eq"
    /\ UNCHANGED <<cache, pc, self, func1, func2, n, apply_reduction>>

NextForest ==
    \/ Construct
    \/ Unjoin
    \/ AsForest
    \/ ForestMul
    \/ ForestEq

SpecForest == Init /\ [][NextForest]_vars

(***************************************************************************)
(* State machine: a host constructs a formal sum and reduces it, twice.    *)
(***************************************************************************)
\* the most terms of a constructed sum
MaxTerms == 3

\* the forests of the terms: results of unjoin, as_forest and products
TermForests ==
    {Tree_unjoin(SINGLETON_TREE), EMPTY_FOREST, SINGLETON_FOREST,
     Forest(<<SINGLETON_TREE, EMPTY_TREE>>), Tree_unjoin(Tree(<< <<>>, << <<>> >> >>)),
     Tree_unjoin(Tree(<< << <<>> >>, <<>> >>))}

\* self = ForestSum(forest_list, coeff_list) for every choice of at most
\* MaxTerms terms
InitSum ==
    /\ cache = <<>>
    /\ pc = <<>>
    /\ \E k \in 0..MaxTerms :
         \E fs \in [1..k -> TermForests], cs \in [1..k -> -1..1] :
            self = ForestSum_init(fs, cs)
    /\ other = NoValue
    /\ op = "init"
    /\ func1 = ""
    /\ func2 = ""
    /\ n = 0
    /\ apply_reduction = TRUE
    /\ out = NoValue

\* out = self.reduce()
SumReduce ==
    /\ op = "init" /\ self.kind = "ForestSum"
    /\ out' = Call(self, "reduce", <<>>)
    /\ op' = "reduce"
    /\ UNCHANGED <<cache, pc, self, other, func1, func2, n, apply_reduction>>

\* out = out.reduce(), the first result kept in other
SumReduceAgain ==
    /\ op = "reduce"
    /\ other' = out
    /\ out' = Call(out, "reduce", <<>>)
    /\ op' = "reduce_again"
    /\ UNCHANGED <<cache, pc, self, func1, func2, n, apply_reduction>>

NextSum ==
    \/ SumReduce
    \/ SumReduceAgain

SpecSum == InitSum /\ [][NextSum]_vars

(***************************************************************************)
(* State machine: a host constructs formal sums a (self), b and c (other)  *)
(* and evaluates a + b, a * b, (a + b) + c, (a * b) * c or a * (b + c),    *)
(* every operation with its default reduction.                             *)
(***************************************************************************)
\* the most terms of an operand
MaxSummands == 1

\* the forests of the operands' terms
RingForests ==
    {Tree_unjoin(SINGLETON_TREE), EMPTY_FOREST, SINGLETON_FOREST,
     Forest(<<Tree(<< <<>> >>)>>)}

\* ForestSum(forest_list, coeff_list) with at most MaxSummands terms of
\* coefficient 1 or -1
RingOperands ==
    UNION {{ForestSum_init(fs, cs) : fs \in [1..k -> RingForests], cs \in [1..k -> {-1, 1}]}
             : k \in 0..MaxSummands}

\* the operands with at most one term, for the third operand
RingMonomials == {x \in RingOperands : Len(x.forest_list) <= 1}

InitRing ==
    /\ cache = <<>>
    /\ pc = <<>>
    /\ self \in RingOperands
    /\ other = NoValue
    /\ op = "init"
    /\ func1 = ""
    /\ func2 = ""
    /\ n = 0
    /\ apply_reduction = TRUE
    /\ out = NoValue

\* out = self + b
Add ==
    /\ op = "init"
    /\ \E b \in RingOperands :
         /\ other' = <<b>>
         /\ out' = Call(self, "__add__", <<b, TRUE>>)
    /\ op' = "add"
    /\ UNCHANGED <<cache, pc, self, func1, func2, n, apply_reduction>>

\* out = self * b
Mul ==
    /\ op = "init"
    /\ \E b \in RingOperands :
         /\ other' = <<b>>
         /\ out' = Call(self, "__mul__", <<b, TRUE>>)
    /\ op' = "mul"
    /\ UNCHANGED <<cache, pc, self, func1, func2, n, apply_reduction>>

\* out = (self + b) + c
AddAdd ==
    /\ op = "init"
    /\ \E b \in RingOperands, c \in RingMonomials :
         /\ other' = <<b, c>>
         /\ out' = Call(Call(self, "__add__", <<b, TRUE>>), "__add__", <<c, TRUE>>)
    /\ op' = "add_add"
    /\ UNCHANGED <<cache, pc, self, func1, func2, n, apply_reduction>>

\* out = (self * b) * c
MulMul ==
    /\ op = "init"
    /\ \E b \in RingOperands, c \in RingMonomials :
         /\ other' = <<b, c>>
         /\ out' = Call(Call(self, "__mul__", <<b, TRUE>>), "__mul__", <<c, TRUE>>)
    /\ op' = "mul_mul"
    /\ UNCHANGED <<cache, pc, self, func1, func2, n, apply_reduction>>

\* out = self * (b + c)
MulAdd ==
    /\ op = "init"
    /\ \E b \in RingOperands, c \in RingMonomials :
         /\ other' = <<b, c>>
         /\ out' = Call(self, "__mul__", <<Call(b, "__add__", <<c, TRUE>>), TRUE>>)
    /\ op' = "mul_add"
    /\ UNCHANGED <<cache, pc, self, func1, func2, n, apply_reduction>>

NextRing ==
    \/ Add
    \/ Mul
    \/ AddAdd
    \/ MulMul
    \/ MulAdd

SpecRing == InitRing /\ [][NextRing]_vars

(***************************************************************************)
(* State machine: a host constructs a value of any kind (self) and calls   *)
(* one operator or method on it, with a second operand (other) where the   *)
(* operation takes one.                                                    *)
(***************************************************************************)
\* the largest exponent
MaxExponent == 3

\* a + b, a - b, a * b as python evaluates them: the method of the left
\* operand, the reflected one (__radd__ = __add__, __rsub__ = __sub__,
\* __rmul__ = __mul__) of the right operand when the left one is a scalar
BinaryOp(m, a, b) ==
    IF a.kind = "scalar" THEN Call(b, m, <<a, TRUE>>)
    ELSE Call(a, m, <<b, TRUE>>)

\* Forest(tree_list) for every list of at most MaxFactors trees
OperandForests ==
    UNION {{Forest(ts) : ts \in [1..k -> FactorTrees]} : k \in 0..MaxFactors}

OperandScalars == {Scalar(c) : c \in -1..1}

Operands == TreeUniverse \cup OperandForests \cup RingOperands \cup OperandScalars

\* the sums of two terms, with coefficients that merge and cancel, over
\* forests with void and unit factors
OperandSums ==
    {ForestSum_init(<<f, g>>, <<c, d>>) :
        f, g \in {Tree_unjoin(SINGLETON_TREE), EMPTY_FOREST,
                 Forest(<<SINGLETON_TREE, EMPTY_TREE>>),
                 Forest(<<SINGLETON_TREE, SINGLETON_TREE>>),
                 Forest(<<SINGLETON_TREE, Tree(<< <<>> >>)>>)},
        c \in {-1, 1, 2}, d \in {-1, 1, 2}}

\* the exponents: ints from -1 to MaxExponent and the floats 1.5 and 2.0
Exponents == {Scalar(k) : k \in -1..MaxExponent} \cup {Float(3, 2), Float(2, 1)}

InitAlgebra ==
    /\ cache = <<>>
    /\ pc = <<>>
    /\ self \in Operands \cup OperandSums
    /\ other = NoValue
    /\ op = "init"
    /\ func1 = ""
    /\ func2 = ""
    /\ n = 0
    /\ apply_reduction = TRUE
    /\ out = NoValue

\* out = self + b
Plus ==
    /\ op = "init"
    /\ \E b \in Operands :
         /\ _is_tree_like(self) \/ _is_tree_like(b)
         /\ other' = b
         /\ out' = BinaryOp("__add__", self, b)
    /\ op' = "+"
    /\ UNCHANGED <<cache, pc, self, func1, func2, n, apply_reduction>>

\* out = self - b
Minus ==
    /\ op = "init"
    /\ \E b \in Operands :
         /\ _is_tree_like(self) \/ _is_tree_like(b)
         /\ other' = b
         /\ out' = BinaryOp("__sub__", self, b)
    /\ op' = "-"
    /\ UNCHANGED <<cache, pc, self, func1, func2, n, apply_reduction>>

\* out = self * b
Times ==
    /\ op = "init"
    /\ \E b \in Operands :
         /\ _is_tree_like(self) \/ _is_tree_like(b)
         /\ other' = b
         /\ out' = BinaryOp("__mul__", self, b)
    /\ op' = "*"
    /\ UNCHANGED <<cache, pc, self, func1, func2, n, apply_reduction>>

\* out = (self == b)
Equals ==
    /\ op = "init"
    /\ \E b \in Operands :
         /\ _is_tree_like(self) \/ _is_tree_like(b)
         /\ other' = b
         /\ out' = Bool(Eq(self, b))
    /\ op' = "=="
    /\ UNCHANGED <<cache, pc, self, func1, func2, n, apply_reduction>>

\* out = self ** e
Pow ==
    /\ op = "init" /\ _is_tree_like(self)
    /\ \E e \in Exponents :
         /\ other' = e
         /\ out' = Call(self, "__pow__", <<e, TRUE>>)
    /\ op' = "**"
    /\ UNCHANGED <<cache, pc, self, func1, func2, n, apply_reduction>>

\* out = self.antipode(red) for a Forest or a ForestSum
AntipodeOf ==
    /\ op = "init" /\ self.kind \in {"Forest", "ForestSum"}
    /\ \E red \in BOOLEAN :
         /\ apply_reduction' = red
         /\ out' = Call(self, "antipode", <<red>>)
    /\ op' = "antipode"
    /\ UNCHANGED <<cache, pc, self, other, func1, func2, n>>

\* self *= b for a Forest self: self is the object the name was bound to
IMul ==
    /\ op = "init" /\ self.kind = "Forest"
    /\ \E b \in Operands :
         /\ other' = b
         /\ self' = Forest_imul(self, b).self
         /\ out' = Forest_imul(self, b).out
    /\ op' = "*="
    /\ UNCHANGED <<cache, pc, func1, func2, n, apply_reduction>>

\* out = self.sign() for a Tree or a ForestSum
Sign ==
    /\ op = "init" /\ self.kind \in {"Tree", "ForestSum"}
    /\ out' = Call(self, "sign", <<>>)
    /\ op' = "sign"
    /\ UNCHANGED <<cache, pc, self, other, func1, func2, n, apply_reduction>>

\* out = self.singleton_reduced() for a Forest or a ForestSum
SingletonReduced ==
    /\ op = "init" /\ self.kind \in {"Forest", "ForestSum"}
    /\ out' = Call(self, "singleton_reduced", <<>>)
    /\ op' = "singleton_reduced"
    /\ UNCHANGED <<cache, pc, self, other, func1, func2, n, apply_reduction>>

\* out = self.reduce() for a Forest
Reduce ==
    /\ op = "init" /\ self.kind = "Forest"
    /\ out' = Call(self, "reduce", <<>>)
    /\ op' = "reduce"
    /\ UNCHANGED <<cache, pc, self, other, func1, func2, n, apply_reduction>>

\* out = self.apply_product(f, g, red) for a Forest or a ForestSum
ApplyProductOf ==
    /\ op = "init" /\ self.kind \in {"Forest", "ForestSum"}
    /\ \E f \in HostFuncs, g \in HostFuncs, red \in BOOLEAN :
         /\ func1' = f
         /\ func2' = g
         /\ apply_reduction' = red
         /\ out' = Call(self, "apply_product", <<HostFunc(f), HostFunc(g), red>>)
    /\ op' = "apply_product"
    /\ UNCHANGED <<cache, pc, self, other, n>>

NextAlgebra ==
    \/ Plus
    \/ Minus
    \/ Times
    \/ Equals
    \/ Pow
    \/ AntipodeOf
    \/ IMul
    \/ Sign
    \/ SingletonReduced
    \/ Reduce
    \/ ApplyProductOf

SpecAlgebra == InitAlgebra /\ [][NextAlgebra]_vars

(***************************************************************************)
(* State machine: threads call the three memoized methods of Tree.  A call *)
(* is <<method, tree, arguments>>.  The wrapper of lru_cache looks the key *)
(* up; on a miss the thread runs the method, while the other threads run,  *)
(* and then stores the result under the key.  cache is the three tables,   *)
(* pc[t] is the position of thread t.  Before the threads start, every     *)
(* call is evaluated once with nothing cached: other holds these values.   *)
(***************************************************************************)
\* the number of threads
MaxThreads == 2

\* the calls the threads make: antipode on the two orderings of a tree of
\* four nodes, with either flag, and on the tree of two nodes; on one
\* ordering, powers that differ in the exponent or in the function; on the
\* other, a product
Requests ==
    LET left == Tree(<< <<>>, << <<>> >> >>)
        right == Tree(<< << <<>> >>, <<>> >>)
    IN  {<<"antipode", t, <<red>> >> : t \in {left, right}, red \in BOOLEAN}
        \cup {<<"antipode", Tree(<< <<>> >>), <<TRUE>> >>}
        \cup {<<"apply_power", left, <<HostFunc("one_plus_nodes"), k, TRUE>> >> :
                 k \in {-1, 2}}
        \cup {<<"apply_power", left, <<HostFunc("identity"), -1, TRUE>> >>,
              <<"apply_product", right,
                <<HostFunc("identity"), HostFunc("antipode"), TRUE>> >>}

\* the method of call r itself, under the wrapper
Invoke(r) ==
    CASE r[1] = "antipode" -> Tree_antipode(r[2], r[3][1])
      [] r[1] = "apply_power" -> Tree_apply_power(r[2], r[3][1], r[3][2], r[3][3])
      [] r[1] = "apply_product" -> Tree_apply_product(r[2], r[3][1], r[3][2], r[3][3])

InitMemo ==
    /\ cache = <<>>
    /\ pc = [t \in 1..MaxThreads |-> [at |-> "idle", call |-> <<>>, result |-> NoValue]]
    /\ other = NoValue
    /\ self = NoValue
    /\ op = "init"
    /\ func1 = ""
    /\ func2 = ""
    /\ n = 0
    /\ apply_reduction = TRUE
    /\ out = NoValue

\* the value of every call in a process that has cached nothing
Uncached ==
    /\ op = "init" /\ cache = <<>>
    /\ other' = [r \in Requests |-> Invoke(r)]
    /\ op' = "memo"
    /\ UNCHANGED <<cache, pc, self, func1, func2, n, apply_reduction, out>>

\* thread t calls r: the wrapper returns the cached value, or t goes on to
\* run the method
Lookup(t) ==
    /\ op = "memo" /\ pc[t].at = "idle"
    /\ \E r \in Requests :
         pc' = [pc EXCEPT ![t] =
                  IF Hit(r[1], r[2], r[3])
                  THEN [at |-> "done", call |-> r,
                        result |-> cache[CacheKey(r[1], r[2], r[3])]]
                  ELSE [at |-> "computing", call |-> r, result |-> NoValue]]
    /\ UNCHANGED <<cache, self, other, op, func1, func2, n, apply_reduction, out>>

\* thread t has run the method: the wrapper stores the result under the key
\* of the call, over what is there, and returns it
Store(t) ==
    /\ pc[t].at = "computing"
    /\ LET r == pc[t].call
           result == Invoke(r)
       IN  /\ pc' = [pc EXCEPT ![t] = [at |-> "done", call |-> r, result |-> result]]
           /\ cache' = [k \in (DOMAIN cache) \cup {CacheKey(r[1], r[2], r[3])} |->
                           IF k = CacheKey(r[1], r[2], r[3]) THEN result ELSE cache[k]]
    /\ UNCHANGED <<self, other, op, func1, func2, n, apply_reduction, out>>

NextMemo ==
    \/ Uncached
    \/ \E t \in 1..MaxThreads : Lookup(t)
    \/ \E t \in 1..MaxThreads : Store(t)

SpecMemo == InitMemo /\ [][NextMemo]_vars


(***************************************************************************)
(* Reference semantics for the properties.  A value of the algebra denotes *)
(* a polynomial in the isomorphism classes of the non-void trees: a list   *)
(* of terms <<monomial, coefficient>>, a monomial being the multiset of    *)
(* the canonical forms of its factors.  Two term lists denote the same     *)
(* polynomial when every monomial has the same total coefficient in both.  *)
(***************************************************************************)
\* a and b are related by a permutation of children, at every level
RECURSIVE IsoRepr(_, _)
IsoRepr(a, b) ==
    /\ Len(a) = Len(b)
    /\ \E p \in [1..Len(a) -> 1..Len(a)] :
         /\ \A i, j \in 1..Len(a) : p[i] = p[j] => i = j
         /\ \A i \in 1..Len(a) : IsoRepr(a[i], b[p[i]])

Iso(t, u) ==
    IF t.none \/ u.none THEN t.none /\ u.none ELSE IsoRepr(t.list_repr, u.list_repr)

\* the multiset of the canonical forms of the non-void trees of tree_list
Mono(tree_list) ==
    LET idx == {i \in 1..Len(tree_list) : ~tree_list[i].none}
        canon(i) == _sorted_list_repr(tree_list[i].list_repr)
    IN  [r \in {canon(i) : i \in idx} |-> Cardinality({i \in idx : canon(i) = r})]

EmptyMono == Mono(<<>>)

MonoMul(a, b) ==
    [r \in (DOMAIN a) \cup (DOMAIN b) |->
        (IF r \in DOMAIN a THEN a[r] ELSE 0) + (IF r \in DOMAIN b THEN b[r] ELSE 0)]

Terms(v) ==
    CASE v.kind = "scalar" -> << <<EmptyMono, v.num>> >>
      [] v.kind = "Tree" -> << <<Mono(<<v>>), 1>> >>
      [] v.kind = "Forest" -> << <<Mono(v.tree_list), 1>> >>
      [] v.kind = "ForestSum" ->
           tuple([i \in 1..Len(v.forest_list) |->
                     <<Mono(v.forest_list[i].tree_list), v.coeff_list[i]>>])

TermsOne == << <<EmptyMono, 1>> >>

TermsNeg(a) == tuple([i \in 1..Len(a) |-> <<a[i][1], -a[i][2]>>])

TermsScale(c, a) == tuple([i \in 1..Len(a) |-> <<a[i][1], c * a[i][2]>>])

TermsMul(a, b) ==
    tuple([q \in 1..(Len(a) * Len(b)) |->
              LET x == ((q - 1) \div Len(b)) + 1
                  y == ((q - 1) % Len(b)) + 1
              IN  <<MonoMul(a[x][1], b[y][1]), a[x][2] * b[y][2]>>])

\* the sum / the product of the term lists list[lo..hi]
RECURSIVE TermsSum(_, _, _)
TermsSum(list, lo, hi) ==
    CASE lo > hi -> <<>>
      [] lo = hi -> list[lo]
      [] OTHER -> TermsSum(list, lo, (lo + hi) \div 2)
                    \o TermsSum(list, ((lo + hi) \div 2) + 1, hi)

RECURSIVE TermsProd(_, _, _)
TermsProd(list, lo, hi) ==
    CASE lo > hi -> TermsOne
      [] lo = hi -> list[lo]
      [] OTHER -> TermsMul(TermsProd(list, lo, (lo + hi) \div 2),
                           TermsProd(list, ((lo + hi) \div 2) + 1, hi))

\* the total coefficient of the monomial m among terms[lo..hi]
RECURSIVE CoefIn(_, _, _, _)
CoefIn(terms, m, lo, hi) ==
    CASE lo > hi -> 0
      [] lo = hi -> IF terms[lo][1] = m THEN terms[lo][2] ELSE 0
      [] OTHER -> CoefIn(terms, m, lo, (lo + hi) \div 2)
                    + CoefIn(terms, m, ((lo + hi) \div 2) + 1, hi)

Coef(terms, m) == CoefIn(terms, m, 1, Len(terms))

SameTerms(a, b) ==
    \A m \in {a[i][1] : i \in 1..Len(a)} \cup {b[i][1] : i \in 1..Len(b)} :
        Coef(a, m) = Coef(b, m)

\* v and w are values of the algebra that denote the same polynomial
SameValue(v, w) ==
    /\ v.kind \in {"scalar", "Tree", "Forest", "ForestSum"}
    /\ w.kind \in {"scalar", "Tree", "Forest", "ForestSum"}
    /\ SameTerms(Terms(v), Terms(w))

\* the product over the trees of forest f of the polynomials g(tree)
OverFactors(f, g(_)) ==
    TermsProd(tuple([j \in 1..Len(f.tree_list) |-> g(f.tree_list[j])]),
              1, Len(f.tree_list))

\* the sum over the terms of forest sum x of coefficient * OverFactors
OverTerms(x, g(_)) ==
    TermsSum(tuple([i \in 1..Len(x.forest_list) |->
                       TermsScale(x.coeff_list[i], OverFactors(x.forest_list[i], g))]),
             1, Len(x.forest_list))

(***************************************************************************)
(* C1, C2: the coproduct.                                                  *)
(***************************************************************************)
\* the admissible cuts of t as pairs <<kept tree, monomial of the removed
\* forest>>, by recursion on t
RECURSIVE RefCuts(_)
RECURSIVE Combos(_, _)
Combos(rep, i) ==
    IF i > Len(rep) THEN {<<>>}
    ELSE {<<pair>> \o rest : pair \in RefCuts(Tree(rep[i])), rest \in Combos(rep, i + 1)}

\* the kept tree of a combination: its non-void kept parts as children
KeptOf(combo) ==
    LET nonvoid == SelectSeq(combo, LAMBDA pair : ~pair[1].none)
    IN  Tree(tuple([j \in 1..Len(nonvoid) |-> nonvoid[j][1].list_repr]))

\* the removed forest of a combination: the product of its removed parts
RECURSIVE RemovedOf(_, _)
RemovedOf(combo, i) ==
    IF i > Len(combo) THEN EmptyMono ELSE MonoMul(combo[i][2], RemovedOf(combo, i + 1))

RefCuts(t) ==
    IF t.none THEN {<<EMPTY_TREE, EmptyMono>>}
    ELSE {<<EMPTY_TREE, Mono(<<t>>)>>}
           \cup {<<KeptOf(combo), RemovedOf(combo, 1)>> : combo \in Combos(t.list_repr, 1)}

\* the index-aligned pairs of a result of split
SplitPairs(subtrees, branches) ==
    {<<subtrees[q], Mono(branches[q].tree_list)>> : q \in 1..Len(subtrees)}

\* C1: split(t) returns two lists of one length whose set of index-aligned
\* pairs (kept tree, removed forest) is the recursively defined set of
\* admissible cuts of t: (void, 1) for the void tree; (unit, 1) and
\* (void, unit) for the unit tree; for [t1..tk] the pair (void, t) and, for
\* every choice of one pair per child, the tree of the non-void kept parts
\* with the product of the removed parts.
C1_SplitIsAdmissibleCuts ==
    op = "split" =>
        /\ Len(out.subtrees) = Len(out.branches)
        /\ SplitPairs(out.subtrees, out.branches) = RefCuts(self)
        /\ self.none => SplitPairs(out.subtrees, out.branches)
                          = {<<EMPTY_TREE, EmptyMono>>}
        /\ self = SINGLETON_TREE =>
             SplitPairs(out.subtrees, out.branches)
               = {<<SINGLETON_TREE, EmptyMono>>, <<EMPTY_TREE, Mono(<<SINGLETON_TREE>>)>>}

\* split has run on [[], [[]]], whose cuts keep void parts out of the kept tree
C1_Witness ==
    /\ op = "split"
    /\ self = Tree(<< <<>>, << <<>> >> >>)
    /\ \E q \in 1..Len(out.subtrees) :
         /\ out.subtrees[q] = Tree(<< << <<>> >> >>)
         /\ Mono(out.branches[q].tree_list) = Mono(<<SINGLETON_TREE>>)

\* the product over the children of rep of the number of pairs of split(child)
RECURSIVE ChildPairCounts(_, _)
ChildPairCounts(rep, i) ==
    IF i > Len(rep) THEN 1
    ELSE Len(Call(Tree(rep[i]), "split", <<>>)[1]) * ChildPairCounts(rep, i + 1)

\* C2: split(t) returns 1 + (the product over the children of t of the
\* number of pairs of split(child)) pairs for a non-void t, so 2 for the
\* unit tree and 5 for [[],[]], and exactly 1 pair for the void tree.
C2_SplitPairCount ==
    op = "split" =>
        /\ Len(out.branches) = Len(out.subtrees)
        /\ Len(out.subtrees) =
             IF self.none THEN 1 ELSE 1 + ChildPairCounts(self.list_repr, 1)
        /\ self = SINGLETON_TREE => Len(out.subtrees) = 2
        /\ self = Tree(<< <<>>, <<>> >>) => Len(out.subtrees) = 5

\* split has run on [[],[]] and returned its 5 pairs
C2_Witness ==
    op = "split" /\ self = Tree(<< <<>>, <<>> >>) /\ Len(out.subtrees) = 5

(***************************************************************************)
(* C3, C4: the antipode.                                                   *)
(***************************************************************************)
\* the polynomial of antipode(tree), as the program computes it
AntipodeTerms(tree) == Terms(Call(tree, "antipode", <<TRUE>>))

\* - antipode(removed) * kept for the pairs of the reduced coproduct, nothing
\* for the other two
ReducedCutTerm(t, subtrees, branches, q) ==
    IF Iso(subtrees[q], t) \/ subtrees[q].none THEN <<>>
    ELSE TermsNeg(TermsMul(OverFactors(branches[q], AntipodeTerms), Terms(subtrees[q])))

\* -t - the sum over the reduced coproduct of antipode(removed) * kept
RefAntipode(t) ==
    LET sp == Call(t, "split", <<>>)
    IN  TermsNeg(Terms(t))
          \o TermsSum(tuple([q \in 1..Len(sp[1]) |-> ReducedCutTerm(t, sp[1], sp[2], q)]),
                      1, Len(sp[1]))

\* C3: for a tree t of at least two nodes, antipode(t) is -t minus the sum,
\* over the pairs of split(t) whose kept part is neither isomorphic to t nor
\* void, of antipode(removed) * kept, the antipode of the removed forest being
\* the product of the antipodes of its trees.
C3_AntipodeRecursion ==
    (op = "antipode" /\ Tree_nodes(self) >= 2) =>
        /\ out.kind = "ForestSum"
        /\ SameTerms(Terms(out), RefAntipode(self))

\* the antipode of a 4-node tree has been computed and reduced
C3_Witness ==
    /\ op = "antipode"
    /\ self = Tree(<< << <<>> >>, <<>> >>)
    /\ apply_reduction
    /\ Len(out.forest_list) > 3

\* C4 as amended: antipode(void) is the identity, the coefficient-1
\* empty-forest sum, and antipode(unit) is -1 times the unit tree: it
\* compares equal to -unit and not to the scalar -1.
C4_AntipodeOfVoidAndUnit ==
    op = "antipode" =>
        /\ self.none => out = EMPTY_FOREST_SUM /\ Eq(out, Scalar(1))
        /\ self = SINGLETON_TREE =>
             /\ out = ForestSum(<<SINGLETON_FOREST>>, <<-1>>)
             /\ Eq(out, Neg(SINGLETON_TREE))
             /\ ~Eq(out, Scalar(-1))

\* the antipode of the unit tree has been computed
C4_Witness ==
    op = "antipode" /\ self = SINGLETON_TREE /\ out.kind = "ForestSum"

\* C4 as stated: antipode(void) is the identity and antipode(unit) == -1
C4_AsStated ==
    op = "antipode" =>
        /\ self.none => Eq(out, EMPTY_FOREST_SUM)
        /\ self = SINGLETON_TREE => Eq(out, Scalar(-1))

(***************************************************************************)
(* C5, C6, C7: convolution.                                                *)
(***************************************************************************)
\* the polynomial of f(tree) for a host function f
HostTerms(f, tree) == Terms(HostCall(f, tree))

\* C5: for every tree t, void included, apply_product(identity, antipode)
\* at t reduces to the counit of t: the coefficient-1 empty-forest sum when t
\* is void and the canonical zero otherwise.
C5_AntipodeIsConvolutionInverse ==
    (op = "apply_product" /\ func1 = "identity" /\ func2 = "antipode") =>
        /\ out.kind = "ForestSum"
        /\ (IF apply_reduction THEN out ELSE Call(out, "reduce", <<>>))
             = (IF self.none THEN EMPTY_FOREST_SUM ELSE ZERO_FOREST_SUM)

\* identity * antipode has been computed on a 4-node tree without reduction:
\* the terms are all there and cancel
C5_Witness ==
    /\ op = "apply_product" /\ func1 = "identity" /\ func2 = "antipode"
    /\ Tree_nodes(self) = 4
    /\ ~apply_reduction
    /\ Len(out.forest_list) > 4

\* the sum over all the pairs of split(t) of f(removed) * g(kept)
RefProduct(t, f, g) ==
    LET sp == Call(t, "split", <<>>)
        F(tree) == HostTerms(f, tree)
    IN  TermsSum(tuple([q \in 1..Len(sp[1]) |->
                           TermsMul(OverFactors(sp[2][q], F), HostTerms(g, sp[1][q]))]),
                 1, Len(sp[1]))

\* C6: apply_product(f, g) at t is the sum over all the pairs of split(t),
\* the no-cut and the full-cut pair included, of f(removed) * g(kept), f
\* applied to the removed forest as the product over its tree factors.
C6_ProductOverAllCuts ==
    op = "apply_product" =>
        /\ out.kind \in {"scalar", "Tree", "Forest", "ForestSum"}
        /\ SameTerms(Terms(out), RefProduct(self, func1, func2))

\* a product of two different functions has been computed on a 4-node tree
C6_Witness ==
    /\ op = "apply_product" /\ func1 = "identity" /\ func2 = "one_plus_nodes"
    /\ self = Tree(<< <<>>, << <<>> >> >>)
    /\ out.kind = "ForestSum"

\* the sum over all the pairs of split(t) of f(removed) * apply_power(f, k - 1)
\* at the kept tree
RefPowerStep(t, f, k) ==
    LET sp == Call(t, "split", <<>>)
        F(tree) == HostTerms(f, tree)
    IN  TermsSum(tuple([q \in 1..Len(sp[1]) |->
                           TermsMul(OverFactors(sp[2][q], F),
                                    Terms(Call(sp[1][q], "apply_power",
                                               <<HostFunc(f), k - 1, TRUE>>)))]),
                 1, Len(sp[1]))

\* C7: apply_power(f, n) at t is the counit of t (1 if t is void else 0)
\* for n = 0; f(t) for n = 1; apply_product(f, x -> apply_power(f, n - 1, x))
\* at t for n > 1; and for n < 0 apply_power(f, -n) extended linearly over
\* the terms and multiplicatively over the factors of antipode(t).
C7_PowerCases ==
    op = "apply_power" =>
        LET f == HostFunc(func1)
            P(tree) == Terms(Call(tree, "apply_power", <<f, -n, TRUE>>))
        IN  CASE n = 0 ->
                   /\ out = (IF self.none THEN EMPTY_FOREST_SUM ELSE ZERO_FOREST_SUM)
                   /\ Eq(out, Scalar(IF self.none THEN 1 ELSE 0))
              [] n = 1 -> out = HostCall(func1, self)
              [] n > 1 ->
                   /\ out.kind \in {"scalar", "Tree", "Forest", "ForestSum"}
                   /\ SameTerms(Terms(out), RefPowerStep(self, func1, n))
              [] n < 0 ->
                   /\ out.kind \in {"scalar", "Tree", "Forest", "ForestSum"}
                   /\ SameTerms(Terms(out),
                                OverTerms(Call(self, "antipode", <<TRUE>>), P))

\* a negative power has been computed on a 4-node tree
C7_Witness ==
    /\ op = "apply_power" /\ func1 = "identity" /\ n = -2
    /\ Tree_nodes(self) = 4
    /\ out.kind = "ForestSum" /\ Len(out.forest_list) > 2

(***************************************************************************)
(* C8: isomorphism invariance.                                             *)
(***************************************************************************)
\* C8: trees related by permuting children, at any levels, compare equal,
\* have equal hashes, nodes, factorial and symmetry factor and equal
\* antipodes; and two trees compare equal only if they are so related.
C8_IsomorphismInvariance ==
    op = "eq" =>
        /\ out.val <=> Iso(self, other)
        /\ Iso(self, other) =>
             /\ Tree_hash(self) = Tree_hash(other)
             /\ Tree_nodes(self) = Tree_nodes(other)
             /\ Tree_factorial(self) = Tree_factorial(other)
             /\ Tree_sigma(self) = Tree_sigma(other)
             /\ Eq(Call(self, "antipode", <<TRUE>>), Call(other, "antipode", <<TRUE>>))
             /\ SameValue(Call(self, "antipode", <<TRUE>>),
                          Call(other, "antipode", <<TRUE>>))

\* two different representations of one tree have been compared
C8_Witness ==
    /\ op = "eq"
    /\ self = Tree(<< <<>>, << <<>> >> >>)
    /\ other = Tree(<< << <<>> >>, <<>> >>)
    /\ out.val

(***************************************************************************)
(* C9: forest equality.                                                    *)
(***************************************************************************)
\* C9: two forests the algebra constructs or returns compare equal if and
\* only if their multisets of canonicalized non-void trees are equal, whatever
\* the order of the factors and the number of void factors.
C9_ForestEqualityIsMultisetEquality ==
    op = "forest_eq" =>
        (out.val <=> Mono(self.tree_list) = Mono(other.tree_list))

(***************************************************************************)
(* C10: the canonical form of a formal sum.                                *)
(***************************************************************************)
\* the monomial of term i of sum x
TermMono(x, i) == Mono(x.forest_list[i].tree_list)

\* C10: x.reduce() has no two terms with isomorphism-equal forests, each
\* coefficient is the sum of the coefficients of the terms of x with that
\* forest, no coefficient is zero, a sum whose coefficients all cancel or
\* that has no terms becomes exactly the canonical zero, and
\* reduce(reduce(x)) == reduce(x).
C10_ReduceIsCanonical ==
    /\ op = "reduce" =>
         /\ out.kind = "ForestSum"
         /\ \A i, j \in 1..Len(out.forest_list) :
              TermMono(out, i) = TermMono(out, j) => i = j
         /\ \A i \in 1..Len(out.forest_list) :
              out.coeff_list[i] = Coef(Terms(self), TermMono(out, i))
         /\ IF \A i \in 1..Len(self.forest_list) :
                  Coef(Terms(self), TermMono(self, i)) = 0
            THEN out = ZERO_FOREST_SUM
            ELSE \A i \in 1..Len(out.forest_list) : out.coeff_list[i] # 0
         /\ SameTerms(Terms(out), Terms(self))
    /\ op = "reduce_again" => out = other /\ Eq(out, other)

WellFormed(v) ==
    CASE v.kind = "ForestSum" ->
           \/ v = ZERO_FOREST_SUM
           \/ /\ \A i, j \in 1..Len(v.forest_list) :
                   TermMono(v, i) = TermMono(v, j) => i = j
              /\ \A i \in 1..Len(v.forest_list) : v.coeff_list[i] # 0
      [] v.kind = "Forest" ->
           \/ v = EMPTY_FOREST
           \/ \A i \in 1..Len(v.tree_list) : ~v.tree_list[i].none
      [] OTHER -> v.kind = "Tree"

\* C12: every +, - or * with the default reduction on scalar, Tree, Forest
\* and FormalSum operands raises an error or returns a reduced, well-formed
\* value; in particular Forest + Forest, Forest + Tree and Forest + scalar
\* return a reduced FormalSum.
C12_OperationsReturnReduced ==
    /\ op \in {"+", "-", "*"} => out.kind = "error" \/ WellFormed(out)
    /\ (op = "+" /\ self.kind = "Forest" /\ other.kind \in {"Forest", "Tree", "scalar"}) =>
          out.kind = "ForestSum" /\ WellFormed(out)

(***************************************************************************)
(* C13: equality across the three kinds.                                   *)
(***************************************************************************)
\* f.reduce() has the one factor t, up to isomorphism
ReducesToTree(f, t) ==
    LET r == Call(f, "reduce", <<>>)
    IN  Len(r.tree_list) = 1 /\ Iso(r.tree_list[1], t)

\* s.reduce() has the one term with forest (t) and coefficient 1
ReducesToTerm(s, t) ==
    LET r == Call(s, "reduce", <<>>)
    IN  /\ Len(r.forest_list) = 1
        /\ r.coeff_list[1] = 1
        /\ ReducesToTree(r.forest_list[1], t)

RECURSIVE ProductOfCopies(_, _)
ProductOfCopies(x, k) ==
    IF k <= 1 THEN x ELSE Call(ProductOfCopies(x, k - 1), "__mul__", <<x, TRUE>>)

\* C14: for an integer exponent k >= 0, x ** k equals the k-fold product of
\* x with itself (for a Tree, the forest of k copies) and x ** 0 equals the
\* void tree; for a negative or a non-integer exponent ** raises an error
\* and returns no value.
C14_PowerIsRepeatedProduct ==
    op = "**" =>
        IF other.kind = "scalar" /\ other.num >= 0
        THEN /\ out.kind \in {"Tree", "Forest", "ForestSum"}
             /\ other.num = 0 => Eq(out, EMPTY_TREE) /\ Eq(out, Scalar(1))
             /\ other.num >= 1 =>
                   /\ Eq(out, ProductOfCopies(self, other.num))
                   /\ SameTerms(Terms(out),
                                TermsProd([i \in 1..other.num |-> Terms(self)],
                                          1, other.num))
                   /\ self.kind = "Tree" =>
                         /\ out.kind = "Forest"
                         /\ Mono(out.tree_list) = Mono([i \in 1..other.num |-> self])
        ELSE out = ValueError

\* the cube of a sum of two terms has been computed, and has four terms
C14_Witness ==
    /\ op = "**" /\ other = Scalar(3)
    /\ self.kind = "ForestSum" /\ Len(self.forest_list) = 2
    /\ out.kind = "ForestSum" /\ Len(out.forest_list) = 4

(***************************************************************************)
(* C15: the antipode of a forest.                                          *)
(***************************************************************************)
\* C15: Forest.antipode returns the product of the antipodes of the trees
\* of the forest and raises ValueError, returning nothing, for the forest
\* with no trees; ForestSum.antipode raises the same error when one of its
\* terms is the forest with no trees and otherwise returns the sum of the
\* coefficients times the products.
C15_ForestAntipode ==
    op = "antipode" =>
        /\ self.kind = "Forest" =>
              IF self.tree_list = <<>> THEN out = ValueError
              ELSE /\ out.kind = "ForestSum"
                   /\ SameTerms(Terms(out), OverFactors(self, AntipodeTerms))
        /\ (self.kind = "ForestSum" /\ Len(self.forest_list) > 0) =>
              IF \E i \in 1..Len(self.forest_list) : self.forest_list[i].tree_list = <<>>
              THEN out = ValueError
              ELSE /\ out.kind = "ForestSum"
                   /\ SameTerms(Terms(out), OverTerms(self, AntipodeTerms))

\* the antipode of a sum whose second term is the forest with no trees has
\* been asked for, and refused
C15_Witness ==
    /\ op = "antipode"
    /\ self.kind = "ForestSum" /\ Len(self.forest_list) = 2
    /\ self.forest_list[1].tree_list # <<>>
    /\ self.forest_list[2].tree_list = <<>>
    /\ out = ValueError

C17_AntipodePlusTreeIsSmaller ==
    (op = "antipode" /\ self.kind = "Tree" /\ ~self.none) =>
        LET s == Call(out, "__add__", <<self, TRUE>>)
        IN  /\ s.kind = "ForestSum"
            /\ \A i \in 1..Len(s.forest_list) :
                  \A j \in 1..Len(s.forest_list[i].tree_list) :
                      Tree_nodes(s.forest_list[i].tree_list[j]) < Tree_nodes(self)
            /\ self.list_repr = <<>> => s = ZERO_FOREST_SUM

\* the antipode of a tree of four nodes has been computed, and the sum with
\* the tree has terms left
C17_Witness ==
    /\ op = "antipode" /\ self.kind = "Tree" /\ Tree_nodes(self) = 4
    /\ out.kind = "ForestSum"
    /\ Len(Call(out, "__add__", <<self, TRUE>>).forest_list) >= 3

(***************************************************************************)
(* C18: sign and the signed antipode.                                      *)
(***************************************************************************)
\* C18: sign(t) is t when t has an even number of nodes and -t otherwise,
\* and t.sign().antipode(), t.antipode().sign() and t.signed_antipode()
\* are equal.
C18_SignCommutesWithAntipode ==
    (op = "sign" /\ self.kind = "Tree") =>
        LET signThenAntipode == Call(out, "antipode", <<TRUE>>)
            antipodeThenSign == Call(Call(self, "antipode", <<TRUE>>), "sign", <<>>)
            signedAntipode == Call(self, "signed_antipode", <<>>)
        IN  /\ Tree_nodes(self) % 2 = 0 => out = self
            /\ Tree_nodes(self) % 2 = 1 =>
                  /\ Eq(out, Neg(self))
                  /\ SameTerms(Terms(out), TermsNeg(Terms(self)))
            /\ Eq(signThenAntipode, antipodeThenSign)
            /\ Eq(antipodeThenSign, signedAntipode)
            /\ SameTerms(Terms(signThenAntipode), Terms(antipodeThenSign))
            /\ SameTerms(Terms(antipodeThenSign), Terms(signedAntipode))

\* the sign of a tree of three nodes has been taken: minus the tree
C18_Witness ==
    /\ op = "sign" /\ self.kind = "Tree" /\ Tree_nodes(self) = 3
    /\ out.kind = "ForestSum" /\ out.coeff_list = <<-1>>

(***************************************************************************)
(* C19: singleton reduction.                                               *)
(***************************************************************************)
\* the number of single-node trees of tree_list
UnitCount(tree_list) ==
    Cardinality({i \in 1..Len(tree_list) :
                    ~tree_list[i].none /\ tree_list[i].list_repr = <<>>})

\* the trees of tree_list with more than one node
LargerTrees(tree_list) ==
    SelectSeq(tree_list, LAMBDA x : ~x.none /\ x.list_repr # <<>>)

\* r is forest f without its unit factors if f has a tree of more than one
\* node, and the single unit factor if f has unit factors and no such tree
SingletonReducedOf(f, r) ==
    /\ r.kind = "Forest"
    /\ LargerTrees(f.tree_list) # <<>> =>
          /\ UnitCount(r.tree_list) = 0
          /\ Mono(r.tree_list) = Mono(LargerTrees(f.tree_list))
    /\ (LargerTrees(f.tree_list) = <<>> /\ UnitCount(f.tree_list) > 0) =>
          r = SINGLETON_FOREST
    /\ UnitCount(Call(f, "reduce", <<>>).tree_list) = UnitCount(f.tree_list)

\* C19: singleton_reduced drops, in a forest and in each forest term of a
\* sum, every unit factor when the forest has a tree of more than one node,
\* collapses a forest of unit factors only to a single unit factor, and
\* keeps the terms and their coefficients; reduce() drops no unit factor.
C19_SingletonReduced ==
    op = "singleton_reduced" =>
        /\ self.kind = "Forest" => SingletonReducedOf(self, out)
        /\ self.kind = "ForestSum" =>
              /\ out.kind = "ForestSum"
              /\ out.coeff_list = self.coeff_list
              /\ Len(out.forest_list) = Len(self.forest_list)
              /\ \A i \in 1..Len(self.forest_list) :
                    SingletonReducedOf(self.forest_list[i], out.forest_list[i])
              /\ SameTerms(Terms(Call(self, "reduce", <<>>)), Terms(self))

\* the sum of a forest with a unit and a larger tree and of a forest of two
\* units has been singleton-reduced
C19_Witness ==
    /\ op = "singleton_reduced" /\ self.kind = "ForestSum"
    /\ self.forest_list = <<Forest(<<SINGLETON_TREE, Tree(<< <<>> >>)>>),
                            Forest(<<SINGLETON_TREE, SINGLETON_TREE>>)>>
    /\ out.forest_list = <<Forest(<<Tree(<< <<>> >>)>>), SINGLETON_FOREST>>
    /\ out.coeff_list = self.coeff_list

(***************************************************************************)
(* C20: a reduced forest has a representation.                             *)
(***************************************************************************)
\* C20: for every forest f the host constructs or an operation returns,
\* the forest built from an empty list and the result of Tree.unjoin
\* included, f.reduce() has at least one factor, has no void factor and the
\* same non-void trees when f has a non-void tree, and is exactly the
\* forest of the single void tree when f has none.
C20_ReducedForestHasAFactor ==
    (op = "reduce" /\ self.kind = "Forest") =>
        /\ out.kind = "Forest"
        /\ Len(out.tree_list) >= 1
        /\ (\E i \in 1..Len(self.tree_list) : ~self.tree_list[i].none) =>
              /\ \A j \in 1..Len(out.tree_list) : ~out.tree_list[j].none
              /\ Mono(out.tree_list) = Mono(self.tree_list)
        /\ (\A i \in 1..Len(self.tree_list) : self.tree_list[i].none) =>
              out = EMPTY_FOREST

(***************************************************************************)
(* C21: the convolution product on a forest.                               *)
(***************************************************************************)
\* C21: for a forest F and tree functions f, g, F.apply_product(f, g)
\* returns the product over the trees t of F of t.apply_product(f, g), the
\* value ForestSum.apply_product gives for the sum 1 * F.
C21_ForestProductIsMultiplicative ==
    (op = "apply_product" /\ self.kind = "Forest") =>
        LET f == HostFunc(func1)
            g == HostFunc(func2)
            AtTree(tree) == Terms(Call(tree, "apply_product", <<f, g, TRUE>>))
            ofSum == Call(Forest_as_forest_sum(self), "apply_product",
                          <<f, g, apply_reduction>>)
        IN  /\ out.kind \in {"scalar", "Tree", "Forest", "ForestSum"}
            /\ SameTerms(Terms(out), OverFactors(self, AtTree))
            /\ SameTerms(Terms(out), Terms(ofSum))

C23_AtMostOncePerKey ==
    \A t, u \in DOMAIN pc :
        (t # u /\ pc[t].at = "computing" /\ pc[u].at = "computing") =>
            CacheKey(pc[t].call[1], pc[t].call[2], pc[t].call[3])
                # CacheKey(pc[u].call[1], pc[u].call[2], pc[u].call[3])

(***************************************************************************)
(* C24: a cut conserves the nodes.                                         *)
(***************************************************************************)
\* C24: for every tree t and every pair i of split(t), the nodes of the kept
\* tree and the nodes of the removed forest, summed over its factors with 0
\* for the void tree, add up to the nodes of t.
C24_CutsConserveNodes ==
    op = "split" =>
        \A i \in 1..Len(out.subtrees) :
            Tree_nodes(out.subtrees[i]) + Forest_nodes(out.branches[i])
                = Tree_nodes(self)

\* split has run on a tree of four nodes and has a pair that keeps two
\* nodes and removes two
C24_Witness ==
    /\ op = "split" /\ self.kind = "Tree" /\ Tree_nodes(self) = 4
    /\ \E i \in 1..Len(out.subtrees) :
          /\ Tree_nodes(out.subtrees[i]) = 2
          /\ Forest_nodes(out.branches[i]) = 2

(***************************************************************************)
(* C25: a scalar minus a value of the algebra.                             *)
(***************************************************************************)
\* C25: for a scalar c and a Tree, Forest or FormalSum x, c - x equals
\* c + (-1) * x, and so equals -(x - c).
C25_ScalarMinusValue ==
    (op = "-" /\ self.kind = "scalar" /\ _is_tree_like(other)) =>
        /\ out.kind \in {"Tree", "Forest", "ForestSum"}
        /\ SameTerms(Terms(out), Terms(self) \o TermsNeg(Terms(other)))
        /\ Eq(out, BinaryOp("__add__", self, BinaryOp("__mul__", Scalar(-1), other)))
        /\ Eq(out, Neg(BinaryOp("__sub__", other, self)))

(***************************************************************************)
(* C26: the antipode is an involution.                                     *)
(***************************************************************************)
\* C26: for every tree t, the antipode of the sum antipode(t) is t:
\* t.antipode().antipode() == t.
C26_AntipodeIsInvolution ==
    (op = "antipode" /\ self.kind = "Tree") =>
        LET twice == Call(out, "antipode", <<TRUE>>)
        IN  /\ twice.kind = "ForestSum"
            /\ Eq(twice, self)
            /\ SameTerms(Terms(twice), Terms(self))

\* the antipode of the antipode of a tree of four nodes, a sum of several
\* terms, has been computed
C26_Witness ==
    /\ op = "antipode" /\ self.kind = "Tree" /\ Tree_nodes(self) = 4
    /\ out.kind = "ForestSum" /\ Len(out.forest_list) >= 4
    /\ Call(out, "antipode", <<TRUE>>) = Tree_as_forest_sum(self)

(***************************************************************************)
(* C27: negative powers are convolution inverses.                          *)
(***************************************************************************)
\* C27: for an integer-valued tree function f with f(void) = 1, every tree t
\* and every k >= 1, the convolution product of f^k and f^(-k) at t, for
\* k = 1 apply_product(f, x -> apply_power(f, -1, x)), equals the counit of
\* t: 1 if t is void, 0 otherwise.
C27_NegativePowerIsInverse ==
    (op = "apply_inverse" /\ HostCall(func1, EMPTY_TREE) = Scalar(1)) =>
        /\ out.kind \in {"scalar", "Tree", "Forest", "ForestSum"}
        /\ Eq(out, Scalar(IF self.none THEN 1 ELSE 0))
        /\ SameValue(out, Scalar(IF self.none THEN 1 ELSE 0))

\* the product of f^2 and f^(-2) has been computed at a tree of four nodes
\* for f = factorial
C27_Witness ==
    /\ op = "apply_inverse" /\ func1 = "factorial" /\ n = 2
    /\ self.kind = "Tree" /\ Tree_nodes(self) = 4
    /\ Eq(out, Scalar(0))

====
